---- MODULE Spec2Model ----
(***************************************************************************)
(* StudySync: leaderboard aggregation, LeetCode verification, the          *)
(* TaskDetails page, group membership, task submission, registration and   *)
(* the user routes, the profile, deletions and the group chat.             *)
(*                                                                         *)
(* The document store (Firestore) is modelled by its collections.  Each    *)
(* family of operations has its own specification over the variables it    *)
(* reads and writes; the variables of the other families stay at rest.     *)
(***************************************************************************)
EXTENDS Integers, Sequences, FiniteSets, TLC

VARIABLES
    vq,           \* the verifier's call: username, titleSlug and the service's answers
    vres,         \* what verifyLeetCodeCompletion resolved to
    tasks,        \* collection "tasks": task id -> groupId, or NoDoc
    subs,         \* collection "task_submissions", in snapshot order
    userDocs,     \* collection "users": the user ids that have a document
    members,      \* collection "group_members", in snapshot order
    lb,           \* the last leaderboard computation and what it did
    loadingLeaderboard, \* Leaderboard page: the loading flag
    fcalls,       \* Leaderboard page: the running calls of fetchLeaderboardData
    errToasts,    \* Leaderboard page: error notifications shown
    dGroup,       \* store: the document of the group being deleted exists
    dColl,        \* store: group_members, messages and tasks, each id -> groupId
    del,          \* group-settings dialog: where handleDeleteGroup stands
    wrote,        \* another client wrote to the group during the deletion
    createdGroups, \* server store: the groups created through POST /api/groups
    groupCounter, \* server store: counters/groups
    apiTasks,     \* server store: the tasks collection written by the API
    taskCounter,  \* server store: counters/tasks
    uStore,       \* server store: the users collection
    uCounter,     \* server store: counters/users
    reg,          \* requests to POST /api/auth/register
    regOps,       \* registration requests started
    httpOut,      \* the last response of a route that answers with user data
    sel,          \* Leaderboard page: the selected group and timeframe
    prof,         \* Profile page: the user's document in "users" and what was saved
    dSubs,        \* store: task_submissions, the number of documents per task id
    tdel,         \* TaskDetails: where handleDeleteTask stands
    msgStore,     \* store: the messages of the group, in the order of the query
    cbs,          \* group chat: the snapshot callbacks, in the order of arrival
    shown,        \* group chat: the messages state and the snapshot it came from
    pg,           \* TaskDetails: the loaded task and profile (type, link, handle)
    vStatus,      \* leetCodeVerification.status
    vMessage,     \* leetCodeVerification.message
    form,         \* submissionForm: "blank" or "autofilled"
    isSubmitting, \* the isSubmitting flag
    subPc,        \* where the running handleSubmitTask stands
    btnVerifying, \* verifier calls in flight that the Verify button started
    hasUserSubmitted, \* the page lists a submission of the user
    pageSubs,     \* the task_submissions documents this page created
    attempts,     \* verifyLeetCodeSubmission invocations so far
    callsIssued,  \* verifyLeetCodeCompletion calls so far
    toast,        \* the last notification shown
    tasksPc,      \* Tasks page: where its handleSubmitTask stands
    tasksSubmitted, \* Tasks page: its submissions list holds one for the task
    gm,           \* the group_members collection
    gmCounter,    \* the counters/group_members document
    autoIds,      \* identifiers the client library has generated
    sess,         \* the group-settings dialogs of two browsers
    req,          \* requests to POST /api/groups/:id/members
    ops,          \* add-member operations started
    tsDocs,       \* the task_submissions collection
    tsCounter,    \* the counters/task_submissions document
    tsAuto,       \* identifiers the client library has generated
    memSubs,      \* MemStorage.taskSubmissions
    memSubCounter, \* MemStorage.taskSubmissionIdCounter
    sub,          \* the submitters
    submits       \* submissions started

fetchVars == <<loadingLeaderboard, fcalls, errToasts>>

aggVars == <<tasks, subs, userDocs, members, lb, fetchVars>>

verVars == <<vq, vres>>

pageVars == <<pg, vStatus, vMessage, form, isSubmitting, subPc, btnVerifying,
              hasUserSubmitted, pageSubs, attempts, callsIssued, toast,
              tasksPc, tasksSubmitted>>

memVars == <<gm, gmCounter, autoIds, sess, req, ops>>

subVars == <<tsDocs, tsCounter, tsAuto, memSubs, memSubCounter, sub, submits>>

delVars == <<dGroup, dColl, del, wrote>>

apiVars == <<createdGroups, groupCounter, apiTasks, taskCounter>>

regVars == <<uStore, uCounter, reg, regOps, httpOut>>

\* the families that came last
selVars == <<sel>>
profVars == <<prof>>
casVars == <<dSubs, tdel>>
chatVars == <<msgStore, cbs, shown>>
lateVars == <<regVars, selVars, profVars, casVars, chatVars>>
extVars == <<apiVars, lateVars>>

oldVars == <<aggVars, verVars, pageVars, memVars, subVars, delVars, apiVars>>
regRest == <<oldVars, selVars, profVars, casVars, chatVars>>
selRest == <<delVars, apiVars, regVars, profVars, casVars, chatVars, verVars,
             pageVars, memVars, subVars>>
profRest == <<aggVars, verVars, memVars, subVars, delVars, apiVars, regVars, selVars,
              casVars, chatVars>>
casRest == <<aggVars, verVars, pageVars, memVars, subVars, apiVars, regVars, selVars,
             profVars, chatVars>>
chatRest == <<oldVars, regVars, selVars, profVars, casVars>>

vars == <<aggVars, verVars, pageVars, memVars, subVars, delVars, extVars>>

----------------------------------------------------------------------------
(* Bounds and value sets *)

MaxSubs == 2        \* submissions in the store
MaxMembers == 2     \* membership documents in the store
MaxRecent == 2      \* entries of the recent-submission window in the model
MaxLinkLen == 4     \* tokens of a resource link
MaxAttempts == 3    \* verification attempts on one page
MaxCreated == 2     \* submissions one page creates
MaxOps == 2         \* add-member operations started
MaxSubmits == 2     \* submissions started
MaxDocs == 2        \* documents per collection when the deletion starts
MaxSnaps == 3       \* message snapshots delivered to one chat

Null == "null"      \* JS null / undefined
NoDoc == "nodoc"    \* no document under this id

Users == {"A", "B"}
Groups == {"g1", "g2"}
TaskIds == {"T1", "T2"}
Statuses == {"completed", "pending", "failed"}   \* shared/schema.ts:84
NoScore == <<>>     \* a submission without a score field (undefined or null)
Scores == {NoScore, <<5>>}
Timeframes == {"weekly", "monthly", "all"}

None == <<>>        \* an absent optional value; a present one is <<v>>
Some(v) == <<v>>

Handles == {"alice123", "ghost"}      \* LeetCode usernames
Slugs == {"two-sum", "lru-cache"}     \* problem slugs

----------------------------------------------------------------------------
(* Dates.  A date is a day of a non-leap year, 1..365; new Date(0) is day  *)
(* EpochDay, before every other date.                                      *)

NowDay == 90        \* "now" of the computation: 31 March
EpochDay == 0
SubDays == {NowDay - 6}

MonthLen == <<31, 28, 31, 30, 31, 30, 31, 31, 30, 31, 30, 31>>

RECURSIVE DaysBefore(_)
DaysBefore(m) == IF m <= 1 THEN 0 ELSE DaysBefore(m - 1) + MonthLen[m - 1]

MonthOf(day) == CHOOSE m \in 1..12 : DaysBefore(m) < day /\ day <= DaysBefore(m) + MonthLen[m]
DayOfMonth(day) == day - DaysBefore(MonthOf(day))

\* Date.prototype.setMonth(getMonth() - 1): the same day of the month in the
\* previous month; a day past the month's end rolls over into the next month.
\* January rolls back into the previous year, which lies before every date
\* of the model.
SetMonthBack(day) ==
    IF MonthOf(day) = 1 THEN EpochDay
    ELSE DaysBefore(MonthOf(day) - 1) + DayOfMonth(day)

\* Date.prototype.toISOString, as far as the date goes: <<month, day>>, both
\* of fixed width, so that the strings compare field by field.
toISOString(day) == IF day = EpochDay THEN <<0, 0>> ELSE <<MonthOf(day), DayOfMonth(day)>>

\* where("submittedAt", ">=", s): string comparison
IsoGeq(a, b) == a[1] > b[1] \/ (a[1] = b[1] /\ a[2] >= b[2])

\* Leaderboard.tsx 322-332
StartDate(tf) ==
    IF tf = "weekly" THEN NowDay - 7
    ELSE IF tf = "monthly" THEN SetMonthBack(NowDay)
    ELSE EpochDay

----------------------------------------------------------------------------
(* Helpers on sequences *)

Range(s) == {s[i] : i \in 1..Len(s)}

RECURSIVE SumScores(_)
SumScores(s) == IF s = <<>> THEN 0 ELSE Head(s).score + SumScores(Tail(s))

\* Array.prototype.sort((a, b) => b.score - a.score): stable, descending
RECURSIVE InsertByScore(_, _)
InsertByScore(sorted, e) ==
    IF sorted = <<>> THEN <<e>>
    ELSE IF Head(sorted).score >= e.score
         THEN <<Head(sorted)>> \o InsertByScore(Tail(sorted), e)
         ELSE <<e>> \o sorted

\* a sort that leaves the entries in insertion order
SortByScoreDesc_Unsorted(s) == s

RECURSIVE SortByScoreDesc(_)
SortByScoreDesc(s) ==
    IF s = <<>> THEN <<>>
    ELSE InsertByScore(SortByScoreDesc(SubSeq(s, 1, Len(s) - 1)), s[Len(s)])

BoundedSeq(S, n) == UNION {[1..k -> S] : k \in 0..n}

\* JS `x || d` on an optional number: d replaces every falsy x (null,
\* undefined and 0)
JsOr(x, d) == IF x = NoScore \/ x = <<0>> THEN d ELSE x[1]

----------------------------------------------------------------------------
(* Score aggregation: the client page and the two server stores *)

DefaultScoreClient == 10
DefaultScoreServer == 1

Entry(u, sc) == [user |-> u, score |-> sc]

\* query(tasks, where("groupId", "==", groupId)), mapped to the document ids
taskIdsOf(g) == {t \in TaskIds : tasks[t] = g}

\* the query of the "all" timeframe whatever the timeframe
submissionsQuery_NoDateFilter(taskIds, tf) ==
    SelectSeq(subs, LAMBDA s : s.taskId \in taskIds)

\* Leaderboard.tsx 334-347: where("taskId", "in", taskIds) and, unless the
\* timeframe is "all", where("submittedAt", ">=", startDate.toISOString())
submissionsQuery(taskIds, tf) ==
    SelectSeq(subs, LAMBDA s :
        /\ s.taskId \in taskIds
        /\ (tf = "all" \/ IsoGeq(toISOString(s.at), toISOString(StartDate(tf)))))

IndexOfUser(acc, u) ==
    IF \E i \in 1..Len(acc) : acc[i].user = u
    THEN CHOOSE i \in 1..Len(acc) : acc[i].user = u
    ELSE 0

\* Leaderboard.tsx 362-387: userScores is keyed by userId, in insertion order
RECURSIVE userScoresFold(_, _)
userScoresFold(docs, acc) ==
    IF docs = <<>> THEN acc
    ELSE LET submission == Head(docs)
             taskScore == JsOr(submission.score, DefaultScoreClient)
             i == IndexOfUser(acc, submission.userId)
         IN userScoresFold(Tail(docs),
                IF i = 0
                THEN IF submission.userId \in userDocs
                     THEN Append(acc, Entry(submission.userId, taskScore))
                     ELSE acc
                ELSE [acc EXCEPT ![i].score = @ + taskScore])

\* the computation without the early return on an empty task list
fetchLeaderboardData_NoShortCircuit(g, tf) ==
    [impl |-> "client", groupId |-> g, tf |-> tf,
     out |-> SortByScoreDesc(userScoresFold(submissionsQuery(taskIdsOf(g), tf), <<>>)),
     queriedSubs |-> TRUE]

\* Leaderboard.tsx 299-392: what the call stores with setLeaderboardData
fetchLeaderboardData(g, tf) ==
    LET taskIds == taskIdsOf(g) IN
    IF taskIds = {}
    THEN [impl |-> "client", groupId |-> g, tf |-> tf, out |-> <<>>, queriedSubs |-> FALSE]
    ELSE [impl |-> "client", groupId |-> g, tf |-> tf,
          out |-> SortByScoreDesc(userScoresFold(submissionsQuery(taskIds, tf), <<>>)),
          queriedSubs |-> TRUE]

\* the completed submissions of one user on the group's tasks, summed
RECURSIVE completedSum(_, _, _)
completedSum(docs, userId, taskIds) ==
    IF docs = <<>> THEN 0
    ELSE LET s == Head(docs) IN
         (IF s.userId = userId /\ s.taskId \in taskIds /\ s.status = "completed"
          THEN JsOr(s.score, DefaultScoreServer) ELSE 0)
         + completedSum(Tail(docs), userId, taskIds)

MapMembers(ms, taskIds, zero) ==
    [i \in 1..Len(ms) |->
        Entry(ms[i].user,
              IF zero THEN 0 ELSE JsOr(<<completedSum(subs, ms[i].userId, taskIds)>>, 0))]

\* storage.ts 178-190: every membership of the group, the user looked up
MemGetGroupMembers(g) ==
    LET ms == SelectSeq(members, LAMBDA m : m.groupId = g) IN
    [i \in 1..Len(ms) |->
        [userId |-> ms[i].userId,
         user |-> IF ms[i].userId \in userDocs THEN ms[i].userId ELSE Null]]

\* storage.ts 296-332
MemGetLeaderboard(g) ==
    LET ms == MemGetGroupMembers(g) IN
    [impl |-> "mem", groupId |-> g, tf |-> "all",
     out |-> SortByScoreDesc(MapMembers(ms, taskIdsOf(g), FALSE)),
     queriedSubs |-> ms # <<>>]

\* firestore.ts 196-217: memberships whose user document is missing are dropped
FirestoreGetGroupMembers(g) ==
    LET ms == SelectSeq(members, LAMBDA m : m.groupId = g /\ m.userId \in userDocs) IN
    [i \in 1..Len(ms) |-> [userId |-> ms[i].userId, user |-> ms[i].userId]]

\* firestore.ts 401-449
FirestoreGetLeaderboard(g) ==
    LET ms == FirestoreGetGroupMembers(g) IN
    IF taskIdsOf(g) = {}
    THEN [impl |-> "firestore", groupId |-> g, tf |-> "all",
          out |-> MapMembers(ms, {}, TRUE), queriedSubs |-> FALSE]
    ELSE [impl |-> "firestore", groupId |-> g, tf |-> "all",
          out |-> SortByScoreDesc(MapMembers(ms, taskIdsOf(g), FALSE)),
          queriedSubs |-> ms # <<>>]

----------------------------------------------------------------------------
(* The LeetCode service and the verifier (lib/graphql) *)

\* data.question of userProblemStatus: null when no problem has the slug;
\* status is null (not attempted), "ac" or "notac"
QuestionStatuses == {Null, "ac", "notac"}

\* what leetcodeClient.query resolves to, or that it rejects with an error
\* whose message may be empty
ThrowAnswers == [threw : {TRUE}, message : {"Network error", ""}]

\* the answers to userProblemStatus(username, titleSlug): the question is
\* the one asked for, the matched user the one asked for, or null
ProblemAnswers(username, titleSlug) ==
    [threw : {FALSE},
     question : {None} \cup {Some([titleSlug |-> titleSlug, status |-> st]) :
                                st \in QuestionStatuses},
     matchedUser : {None, Some(username)}]
    \cup ThrowAnswers

RecentEntries == [titleSlug : Slugs, statusDisplay : {"Accepted", "Wrong Answer"}]

\* recentSubmissionList may be null
RecentAnswersUpTo(n) ==
    [threw : {FALSE},
     recentSubmissionList : {None} \cup {Some(l) : l \in BoundedSeq(RecentEntries, n)}]
    \cup ThrowAnswers

RecentAnswers == RecentAnswersUpTo(MaxRecent)

Thrown(msg) == [threw |-> TRUE, message |-> msg]

OrEmpty(l) == IF l = None THEN <<>> ELSE l[1]

\* the check without the test for a missing question
checkProblemStatus_NoExistenceTest(username, titleSlug, data, recentData) ==
    IF username = "" \/ titleSlug = ""
    THEN Thrown("Username and problem titleSlug are required")
    ELSE IF data.threw THEN Thrown(data.message)
    ELSE IF recentData.threw THEN Thrown(recentData.message)
    ELSE LET relevantSubmissions ==
                 SelectSeq(OrEmpty(recentData.recentSubmissionList),
                           LAMBDA e : e.titleSlug = titleSlug)
         IN [threw |-> FALSE, problem |-> data.question, user |-> data.matchedUser,
             solved |-> /\ data.question # None
                        /\ data.question[1].status = "ac"
                        /\ \E i \in 1..Len(relevantSubmissions) :
                              relevantSubmissions[i].statusDisplay = "Accepted",
             error |-> None,
             recentSubmissions |-> relevantSubmissions]

\* part_005 1152-1234.  Both queries are awaited before the answer is read.
checkProblemStatus(username, titleSlug, data, recentData) ==
    IF username = "" \/ titleSlug = ""
    THEN Thrown("Username and problem titleSlug are required")
    ELSE IF data.threw THEN Thrown(data.message)
    ELSE IF recentData.threw THEN Thrown(recentData.message)
    ELSE IF data.question = None
    THEN [threw |-> FALSE, problem |-> None, user |-> data.matchedUser,
          solved |-> FALSE, error |-> Some(<<"ProblemNotFound", titleSlug>>),
          recentSubmissions |-> <<>>]
    ELSE LET problemStatus == data.question[1].status
             recentSubmissions == OrEmpty(recentData.recentSubmissionList)
             relevantSubmissions ==
                 SelectSeq(recentSubmissions, LAMBDA e : e.titleSlug = titleSlug)
             hasAcceptedSubmission ==
                 \E i \in 1..Len(relevantSubmissions) :
                     relevantSubmissions[i].statusDisplay = "Accepted"
         IN [threw |-> FALSE, problem |-> data.question, user |-> data.matchedUser,
             solved |-> (problemStatus = "ac" /\ hasAcceptedSubmission),
             error |-> None,
             recentSubmissions |-> relevantSubmissions]

\* the verifier returning the whole recent window as its submissions
verifyLeetCodeCompletion_WholeWindow(username, problemTitleSlug, data, recentData) ==
    IF username = "" \/ problemTitleSlug = ""
    THEN [rev |-> "improved", verified |-> FALSE,
          error |-> Some(<<"Missing username or problem identifier">>),
          problem |-> None, submissions |-> <<>>]
    ELSE LET result == checkProblemStatus(username, problemTitleSlug, data, recentData) IN
         IF result.threw
         THEN [rev |-> "improved", verified |-> FALSE,
               error |-> Some(<<IF result.message = "" THEN "Failed to verify completion"
                                                       ELSE result.message>>),
               problem |-> None, submissions |-> <<>>]
         ELSE IF result.error # None
         THEN [rev |-> "improved", verified |-> FALSE, error |-> result.error,
               problem |-> None, submissions |-> <<>>]
         ELSE [rev |-> "improved", verified |-> result.solved, error |-> None,
               problem |-> result.problem,
               submissions |-> OrEmpty(recentData.recentSubmissionList)]

\* the verifier without its catch: what checkProblemStatus throws goes on
verifyLeetCodeCompletion_NoCatch(username, problemTitleSlug, data, recentData) ==
    IF username = "" \/ problemTitleSlug = ""
    THEN [rev |-> "improved", verified |-> FALSE,
          error |-> Some(<<"Missing username or problem identifier">>),
          problem |-> None, submissions |-> <<>>]
    ELSE LET result == checkProblemStatus(username, problemTitleSlug, data, recentData) IN
         IF result.threw
         THEN result
         ELSE IF result.error # None
         THEN [rev |-> "improved", verified |-> FALSE, error |-> result.error,
               problem |-> None, submissions |-> <<>>]
         ELSE [rev |-> "improved", verified |-> result.solved, error |-> None,
               problem |-> result.problem,
               submissions |->
                   SelectSeq(result.recentSubmissions,
                             LAMBDA e : e.statusDisplay = "Accepted")]

\* part_005 1237-1294
verifyLeetCodeCompletion(username, problemTitleSlug, data, recentData) ==
    IF username = "" \/ problemTitleSlug = ""
    THEN [rev |-> "improved", verified |-> FALSE,
          error |-> Some(<<"Missing username or problem identifier">>),
          problem |-> None, submissions |-> <<>>]
    ELSE LET result == checkProblemStatus(username, problemTitleSlug, data, recentData) IN
         IF result.threw
         THEN [rev |-> "improved", verified |-> FALSE,
               error |-> Some(<<IF result.message = "" THEN "Failed to verify completion"
                                                       ELSE result.message>>),
               problem |-> None, submissions |-> <<>>]
         ELSE IF result.error # None
         THEN [rev |-> "improved", verified |-> FALSE, error |-> result.error,
               problem |-> None, submissions |-> <<>>]
         ELSE [rev |-> "improved", verified |-> result.solved, error |-> None,
               problem |-> result.problem,
               submissions |->
                   SelectSeq(result.recentSubmissions,
                             LAMBDA e : e.statusDisplay = "Accepted")]

\* client/src/lib/graphql.ts 98-132: the status of the question is not read
checkProblemStatusRecent(username, titleSlug, data, recentData) ==
    IF username = "" \/ titleSlug = ""
    THEN Thrown("Username and problem titleSlug are required")
    ELSE IF data.threw THEN Thrown(data.message)
    ELSE IF recentData.threw THEN Thrown(recentData.message)
    ELSE LET recentSubmissions == OrEmpty(recentData.recentSubmissionList) IN
         [threw |-> FALSE, problem |-> data.question, user |-> data.matchedUser,
          solved |-> \E i \in 1..Len(recentSubmissions) :
                        /\ recentSubmissions[i].titleSlug = titleSlug
                        /\ recentSubmissions[i].statusDisplay = "Accepted",
          recentSubmissions |-> recentSubmissions]

\* client/src/lib/graphql.ts 135-161
verifyLeetCodeCompletionRecent(username, problemTitleSlug, data, recentData) ==
    IF username = "" \/ problemTitleSlug = ""
    THEN [rev |-> "recent", verified |-> FALSE,
          error |-> Some(<<"Missing username or problem identifier">>),
          problem |-> None, submissions |-> <<>>]
    ELSE LET result == checkProblemStatusRecent(username, problemTitleSlug, data, recentData) IN
         IF result.threw
         THEN [rev |-> "recent", verified |-> FALSE,
               error |-> Some(<<IF result.message = "" THEN "Failed to verify completion"
                                                       ELSE result.message>>),
               problem |-> None, submissions |-> <<>>]
         ELSE [rev |-> "recent", verified |-> result.solved, error |-> None,
               problem |-> result.problem,
               submissions |->
                   SelectSeq(result.recentSubmissions,
                             LAMBDA e : e.titleSlug = problemTitleSlug)]

----------------------------------------------------------------------------
(* The TaskDetails page *)

\* A resource link is a sequence of tokens: "/" or a word without a slash.
\* Two words never stand side by side (they would be one word).
LinkTokens == {"/", "problems", "two-sum"}
Links ==
    {l \in BoundedSeq(LinkTokens, MaxLinkLen) :
        \A i \in 1..(Len(l) - 1) : l[i] = "/" \/ l[i + 1] = "/"}

Marker == <<"/", "problems", "/">>

FirstMarker(l) ==
    LET at == {i \in 1..(Len(l) - 2) : SubSeq(l, i, i + 2) = Marker} IN
    IF at = {} THEN 0 ELSE CHOOSE i \in at : \A j \in at : i <= j

FirstSlash(l) ==
    LET at == {i \in 1..Len(l) : l[i] = "/"} IN
    IF at = {} THEN 0 ELSE CHOOSE i \in at : \A j \in at : i <= j

\* TaskDetails.tsx 179: resourceLink.split("/problems/")[1]?.split("/")[0];
\* Null stands for undefined
problemSlugOf(resourceLink) ==
    LET i == FirstMarker(resourceLink) IN
    IF i = 0 THEN Null
    ELSE LET rest == SubSeq(resourceLink, i + 3, Len(resourceLink))
             j == FirstMarker(rest)
             piece == IF j = 0 THEN rest ELSE SubSeq(rest, 1, j - 1)
             k == FirstSlash(piece)
             first == IF k = 0 THEN piece ELSE SubSeq(piece, 1, k - 1)
         IN IF first = <<>> THEN "" ELSE first[1]

Falsy(x) == x = Null \/ x = ""

MsgNone == <<>>
MsgChecking == <<"Checking LeetCode submission status...">>
MsgInvalidLink == <<"Invalid LeetCode problem link. It should contain '/problems/problem-slug/'">>
MsgNoHandle == <<"You need to set your LeetCode username in your profile first.">>
MsgGeneric == <<"Could not verify LeetCode submission. Try solving the problem first.">>

TitleOf(problem) == IF problem = None THEN Null ELSE problem[1].titleSlug

\* a page that shows the same banner for every failure
MessageOf_OneBanner(result) ==
    IF result.verified THEN <<"Verified!", TitleOf(result.problem)>> ELSE MsgGeneric

\* TaskDetails.tsx 196-223: the status and message a result leads to
StatusOf(result) == IF result.verified THEN "success" ELSE "error"
MessageOf(result) ==
    IF result.verified THEN <<"Verified!", TitleOf(result.problem)>>
    ELSE IF result.error # None THEN result.error[1]
    ELSE IF result.problem # None
         THEN <<"Could not verify completion of", TitleOf(result.problem)>>
    ELSE MsgGeneric

\* what a call of the page's verifier may resolve to, in either revision; a
\* window of one entry yields every outcome the page tells apart
VerifierResults(username, slug) ==
    UNION {{verifyLeetCodeCompletion(username, slug, d, r),
            verifyLeetCodeCompletionRecent(username, slug, d, r)} :
        d \in ProblemAnswers(username, slug), r \in RecentAnswersUpTo(1)}

ButtonsShown == ~hasUserSubmitted

\* the start of an attempt without the test for the handle
verifyStart_NoHandleTest(started) ==
    /\ attempts' = attempts + 1
    /\ IF Falsy(problemSlugOf(pg.link))
       THEN /\ vStatus' = "error"
            /\ vMessage' = MsgInvalidLink
            /\ UNCHANGED <<toast, callsIssued>>
            /\ started = FALSE
       ELSE /\ vStatus' = "checking"
            /\ vMessage' = MsgChecking
            /\ callsIssued' = callsIssued + 1
            /\ UNCHANGED toast
            /\ started = TRUE

verifyStart_NoLinkTest(started) ==
    /\ attempts' = attempts + 1
    /\ vStatus' = "checking"
    /\ vMessage' = MsgChecking
    /\ callsIssued' = callsIssued + 1
    /\ UNCHANGED toast
    /\ started = TRUE

\* TaskDetails.tsx 160-192, up to the await: the guard, the slug, the call.
\* `started` tells whether the verifier was called.
verifyStart(started) ==
    /\ attempts' = attempts + 1
    /\ IF pg.handle = ""
       THEN /\ toast' = MsgNoHandle
            /\ UNCHANGED <<vStatus, vMessage, callsIssued>>
            /\ started = FALSE
       ELSE IF Falsy(problemSlugOf(pg.link))
       THEN /\ vStatus' = "error"
            /\ vMessage' = MsgInvalidLink
            /\ UNCHANGED <<toast, callsIssued>>
            /\ started = FALSE
       ELSE /\ vStatus' = "checking"
            /\ vMessage' = MsgChecking
            /\ callsIssued' = callsIssued + 1
            /\ UNCHANGED toast
            /\ started = TRUE

\* TaskDetails.tsx 526-533: the Verify Submission button
VerifyClick ==
    /\ UNCHANGED <<aggVars, delVars, extVars, verVars, memVars, subVars>>
    /\ UNCHANGED <<tasksPc, tasksSubmitted>>
    /\ ButtonsShown
    /\ pg.type = "leetcode"
    /\ pg.handle # ""
    /\ vStatus # "checking"
    /\ attempts < MaxAttempts
    /\ \E started \in BOOLEAN :
          /\ verifyStart(started)
          /\ btnVerifying' = IF started THEN btnVerifying + 1 ELSE btnVerifying
    /\ UNCHANGED <<pg, form, isSubmitting, subPc, hasUserSubmitted, pageSubs>>

\* TaskDetails.tsx 192-223: a call started by the button resolves
VerifyResolve ==
    /\ UNCHANGED <<aggVars, delVars, extVars, verVars, memVars, subVars>>
    /\ UNCHANGED <<tasksPc, tasksSubmitted>>
    /\ btnVerifying > 0
    /\ \E result \in VerifierResults(pg.handle, problemSlugOf(pg.link)) :
          /\ vStatus' = StatusOf(result)
          /\ vMessage' = MessageOf(result)
          /\ form' = IF result.verified THEN "autofilled" ELSE form
    /\ btnVerifying' = btnVerifying - 1
    /\ UNCHANGED <<pg, isSubmitting, subPc, hasUserSubmitted, pageSubs, attempts,
                   callsIssued, toast>>

\* TaskDetails.tsx 160-192: verifyLeetCodeSubmission called as a function,
\* whatever the page renders, once the previous call has returned
CallVerify ==
    /\ UNCHANGED <<aggVars, delVars, extVars, verVars, memVars, subVars>>
    /\ UNCHANGED <<tasksPc, tasksSubmitted>>
    /\ btnVerifying = 0
    /\ attempts < MaxAttempts
    /\ \E started \in BOOLEAN :
          /\ verifyStart(started)
          /\ btnVerifying' = IF started THEN 1 ELSE 0
    /\ UNCHANGED <<pg, form, isSubmitting, subPc, hasUserSubmitted, pageSubs>>

\* TaskDetails.tsx 192-223: the call resolves; the answers of the service and
\* the verifier's result are kept
CallResolve ==
    /\ UNCHANGED <<aggVars, delVars, extVars, memVars, subVars>>
    /\ UNCHANGED <<tasksPc, tasksSubmitted>>
    /\ btnVerifying > 0
    /\ LET username == pg.handle
           slug == problemSlugOf(pg.link) IN
       \E d \in ProblemAnswers(username, slug), r \in RecentAnswersUpTo(1) :
          /\ vq' = [username |-> username, titleSlug |-> slug, data |-> d,
                    recentData |-> r]
          /\ vres' \in {verifyLeetCodeCompletion(username, slug, d, r),
                        verifyLeetCodeCompletionRecent(username, slug, d, r)}
    /\ vStatus' = StatusOf(vres')
    /\ vMessage' = MessageOf(vres')
    /\ form' = IF vres'.verified THEN "autofilled" ELSE form
    /\ btnVerifying' = btnVerifying - 1
    /\ UNCHANGED <<pg, isSubmitting, subPc, hasUserSubmitted, pageSubs, attempts,
                   callsIssued, toast>>

\* TaskDetails.tsx 234-256 and the button at 580-586
SubmitClick ==
    /\ UNCHANGED <<aggVars, delVars, extVars, verVars, memVars, subVars>>
    /\ UNCHANGED <<tasksPc, tasksSubmitted>>
    /\ ButtonsShown
    /\ ~isSubmitting
    /\ ~(pg.type = "leetcode" /\ vStatus = "checking")
    /\ Len(pageSubs) < MaxCreated
    /\ IF pg.type = "leetcode" /\ vStatus # "success" /\ pg.handle # ""
       THEN /\ attempts < MaxAttempts
            /\ \E started \in BOOLEAN :
                  /\ verifyStart(started)
                  \* without a call the await resolves at once, the status the
                  \* handler closed over is not "success", and it returns
                  /\ subPc' = IF started THEN "verifying" ELSE "idle"
                  /\ isSubmitting' = started
       ELSE /\ subPc' = "addDoc"
            /\ isSubmitting' = TRUE
            /\ UNCHANGED <<vStatus, vMessage, attempts, callsIssued, toast>>
    /\ UNCHANGED <<pg, form, btnVerifying, hasUserSubmitted, pageSubs>>

\* TaskDetails.tsx 247-254: the call started by Submit resolves; the handler
\* reads the status it closed over, which is not "success", and returns
SubmitVerifyResolve ==
    /\ UNCHANGED <<aggVars, delVars, extVars, verVars, memVars, subVars>>
    /\ UNCHANGED <<tasksPc, tasksSubmitted>>
    /\ subPc = "verifying"
    /\ \E result \in VerifierResults(pg.handle, problemSlugOf(pg.link)) :
          /\ vStatus' = StatusOf(result)
          /\ vMessage' = MessageOf(result)
          /\ form' = IF result.verified THEN "autofilled" ELSE form
    /\ subPc' = "idle"
    /\ isSubmitting' = FALSE
    /\ UNCHANGED <<pg, btnVerifying, hasUserSubmitted, pageSubs, attempts, callsIssued,
                   toast>>

MsgSubmitted == <<"Task submitted successfully">>
MsgSubmitFailed == <<"Failed to submit task. Please try again.">>

\* a failure path that also resets the verification
SubmitFails_ResetsVerification ==
    /\ UNCHANGED <<aggVars, delVars, extVars, verVars, memVars, subVars>>
    /\ UNCHANGED <<tasksPc, tasksSubmitted>>
    /\ subPc \in {"addDoc", "addMsg", "refresh"}
    /\ toast' = MsgSubmitFailed
    /\ subPc' = "idle"
    /\ isSubmitting' = FALSE
    /\ vStatus' = "idle"
    /\ vMessage' = MsgNone
    /\ UNCHANGED <<pg, form, btnVerifying, hasUserSubmitted, pageSubs, attempts, callsIssued>>

\* TaskDetails.tsx 316-325: a store call of handleSubmitTask rejects
SubmitFails ==
    /\ UNCHANGED <<aggVars, delVars, extVars, verVars, memVars, subVars>>
    /\ UNCHANGED <<tasksPc, tasksSubmitted>>
    /\ subPc \in {"addDoc", "addMsg", "refresh"}
    /\ toast' = MsgSubmitFailed
    /\ subPc' = "idle"
    /\ isSubmitting' = FALSE
    /\ UNCHANGED <<pg, vStatus, vMessage, form, btnVerifying, hasUserSubmitted, pageSubs,
                   attempts, callsIssued>>

\* TaskDetails.tsx 257-268: addDoc(task_submissions)
SubmitAddDoc ==
    /\ UNCHANGED <<aggVars, delVars, extVars, verVars, memVars, subVars>>
    /\ UNCHANGED <<tasksPc, tasksSubmitted>>
    /\ subPc = "addDoc"
    /\ pageSubs' = Append(pageSubs, [status |-> "completed", verification |-> vStatus])
    /\ subPc' = "addMsg"
    /\ UNCHANGED <<pg, vStatus, vMessage, form, isSubmitting, btnVerifying,
                   hasUserSubmitted, attempts, callsIssued, toast>>

\* TaskDetails.tsx 270-292: addDoc(messages), the toast, the form and the
\* verification are reset
SubmitAddMessage ==
    /\ UNCHANGED <<aggVars, delVars, extVars, verVars, memVars, subVars>>
    /\ UNCHANGED <<tasksPc, tasksSubmitted>>
    /\ subPc = "addMsg"
    /\ toast' = MsgSubmitted
    /\ form' = "blank"
    /\ vStatus' = "idle"
    /\ vMessage' = MsgNone
    /\ subPc' = "refresh"
    /\ UNCHANGED <<pg, isSubmitting, btnVerifying, hasUserSubmitted, pageSubs, attempts,
                   callsIssued>>

\* TaskDetails.tsx 294-315 and 323-325: the submissions are read again
SubmitRefresh ==
    /\ UNCHANGED <<aggVars, delVars, extVars, verVars, memVars, subVars>>
    /\ UNCHANGED <<tasksPc, tasksSubmitted>>
    /\ subPc = "refresh"
    /\ hasUserSubmitted' = TRUE
    /\ subPc' = "idle"
    /\ isSubmitting' = FALSE
    /\ UNCHANGED <<pg, vStatus, vMessage, form, btnVerifying, pageSubs, attempts,
                   callsIssued, toast>>

taskDetailsVars == <<vStatus, vMessage, form, isSubmitting, subPc, btnVerifying,
                     hasUserSubmitted, attempts, callsIssued, toast>>

\* part_004 317-321 and 669-675: Submit Task in the dialog of the Tasks page
TasksSubmitClick ==
    /\ UNCHANGED <<aggVars, delVars, extVars, verVars, memVars, subVars>>
    /\ ~tasksSubmitted
    /\ tasksPc = "idle"
    /\ Len(pageSubs) < MaxCreated
    /\ tasksPc' = "addDoc"
    /\ UNCHANGED <<pg, taskDetailsVars, pageSubs, tasksSubmitted>>

\* part_004 323-334: addDoc(task_submissions), status "completed"
TasksAddDoc ==
    /\ UNCHANGED <<aggVars, delVars, extVars, verVars, memVars, subVars>>
    /\ tasksPc = "addDoc"
    /\ pageSubs' = Append(pageSubs, [status |-> "completed", verification |-> "none"])
    /\ tasksPc' = "notify"
    /\ UNCHANGED <<pg, taskDetailsVars, tasksSubmitted>>

\* part_004 336-359: the chat message, the form reset, the toast
TasksNotify ==
    /\ UNCHANGED <<aggVars, delVars, extVars, verVars, memVars, subVars>>
    /\ tasksPc = "notify"
    /\ tasksPc' = "refresh"
    /\ UNCHANGED <<pg, taskDetailsVars, pageSubs, tasksSubmitted>>

\* part_004 361-373 and 381-383: the user's submissions are read again
TasksRefresh ==
    /\ UNCHANGED <<aggVars, delVars, extVars, verVars, memVars, subVars>>
    /\ tasksPc = "refresh"
    /\ tasksSubmitted' = TRUE
    /\ tasksPc' = "idle"
    /\ UNCHANGED <<pg, taskDetailsVars, pageSubs>>

\* part_004 374-383: a store call rejects
TasksFails ==
    /\ UNCHANGED <<aggVars, delVars, extVars, verVars, memVars, subVars>>
    /\ tasksPc \in {"addDoc", "notify", "refresh"}
    /\ tasksPc' = "idle"
    /\ UNCHANGED <<pg, taskDetailsVars, pageSubs, tasksSubmitted>>

PageRecords == [type : {"leetcode", "general"}, link : Links, handle : {"", "alice123"}]

PageIdle ==
    /\ pg = [type |-> "general", link |-> <<>>, handle |-> ""]
    /\ vStatus = "idle"
    /\ vMessage = MsgNone
    /\ form = "blank"
    /\ isSubmitting = FALSE
    /\ subPc = "idle"
    /\ btnVerifying = 0
    /\ hasUserSubmitted = FALSE
    /\ pageSubs = <<>>
    /\ attempts = 0
    /\ callsIssued = 0
    /\ toast = MsgNone
    /\ tasksPc = "idle"
    /\ tasksSubmitted = FALSE

----------------------------------------------------------------------------
(* Adding a member: the group-settings dialog and the server route *)

Sessions == {"s1", "s2"}
Reqs == {"r1", "r2"}
Admin == "adm"
\* the groups collection: g1 and what POST /api/groups created
GroupDocs == {"g1"} \cup createdGroups
Emails == {"", "a@x", "b@x", "nobody@x"}

\* the users collection queried by email
UsersByEmail(email) ==
    IF email = "a@x" THEN {"A"} ELSE IF email = "b@x" THEN {"B"} ELSE {}

AutoKey(n) == <<"auto", n>>
NumKey(n) == <<"num", n>>

MembershipsOf(userId, groupId) == {d \in gm : d.userId = userId /\ d.groupId = groupId}

\* doc(key).set(data): a document with the same key is replaced
SetDoc(coll, doc) == {d \in coll : d.key # doc.key} \cup {doc}

SessIdle == [pc |-> "idle", email |-> "", userId |-> Null, toast |-> MsgNone,
             view |-> {}]
ReqIdle == [pc |-> "idle", caller |-> Null, groupId |-> Null, body |-> None,
            nextId |-> 0, resp |-> 0]

MsgEmailRequired == <<"Email is required">>
MsgNoUser == <<"No user found with this email">>
MsgAlreadyMember == <<"User is already a member of this group">>
MsgMemberAdded == <<"Member added successfully">>
MsgAddFailed == <<"Failed to add member">>

\* group-settings.tsx 173-191: the click on Add, up to the first await
ClientStart(s) ==
    /\ sess[s].pc = "idle"
    /\ ops < MaxOps
    /\ \E email \in Emails :
          IF email = ""
          THEN /\ sess' = [sess EXCEPT ![s].toast = MsgEmailRequired]
               /\ UNCHANGED ops
          ELSE /\ sess' = [sess EXCEPT ![s].pc = "findUser", ![s].email = email]
               /\ ops' = ops + 1
    /\ UNCHANGED <<gm, gmCounter, autoIds, req>>
    /\ UNCHANGED <<aggVars, delVars, extVars, verVars, pageVars, subVars>>

\* group-settings.tsx 193-205: the users query answers
ClientFindUser(s) ==
    /\ sess[s].pc = "findUser"
    /\ LET found == UsersByEmail(sess[s].email) IN
       IF found = {}
       THEN sess' = [sess EXCEPT ![s].pc = "idle", ![s].toast = MsgNoUser]
       ELSE sess' = [sess EXCEPT ![s].pc = "checkMember",
                                 ![s].userId = CHOOSE u \in found : TRUE]
    /\ UNCHANGED <<gm, gmCounter, autoIds, req, ops>>
    /\ UNCHANGED <<aggVars, delVars, extVars, verVars, pageVars, subVars>>

\* group-settings.tsx 207-223: the membership query answers
ClientCheckMember(s) ==
    /\ sess[s].pc = "checkMember"
    /\ IF MembershipsOf(sess[s].userId, "g1") # {}
       THEN sess' = [sess EXCEPT ![s].pc = "idle", ![s].toast = MsgAlreadyMember]
       ELSE sess' = [sess EXCEPT ![s].pc = "addDoc"]
    /\ UNCHANGED <<gm, gmCounter, autoIds, req, ops>>
    /\ UNCHANGED <<aggVars, delVars, extVars, verVars, pageVars, subVars>>

\* group-settings.tsx 225-241: addDoc(group_members), the list is read again,
\* the field is cleared, the toast shown
ClientAddDoc(s) ==
    /\ sess[s].pc = "addDoc"
    /\ autoIds' = autoIds + 1
    /\ gm' = SetDoc(gm, [key |-> AutoKey(autoIds + 1), groupId |-> "g1",
                         userId |-> sess[s].userId, isAdmin |-> FALSE])
    /\ sess' = [sess EXCEPT ![s].pc = "addMsg", ![s].email = "",
                            ![s].toast = MsgMemberAdded, ![s].view = gm']
    /\ UNCHANGED <<gmCounter, req, ops>>
    /\ UNCHANGED <<aggVars, delVars, extVars, verVars, pageVars, subVars>>

\* group-settings.tsx 243-250 and 258-260: addDoc(messages)
ClientAddMessage(s) ==
    /\ sess[s].pc = "addMsg"
    /\ sess' = [sess EXCEPT ![s].pc = "idle"]
    /\ UNCHANGED <<gm, gmCounter, autoIds, req, ops>>
    /\ UNCHANGED <<aggVars, delVars, extVars, verVars, pageVars, subVars>>

\* group-settings.tsx 251-260: a store call rejects
ClientFails(s) ==
    /\ sess[s].pc \in {"findUser", "checkMember", "addDoc", "addMsg"}
    /\ sess' = [sess EXCEPT ![s].pc = "idle", ![s].toast = MsgAddFailed]
    /\ UNCHANGED <<gm, gmCounter, autoIds, req, ops>>
    /\ UNCHANGED <<aggVars, delVars, extVars, verVars, pageVars, subVars>>

\* routes.ts 39-44 and 179-182: the request arrives
ReqStart(r) ==
    /\ req[r].pc = "idle"
    /\ ops < MaxOps
    /\ \E caller \in {Null, Admin, "A"}, groupId \in Groups,
          body \in {None} \cup {Some(u) : u \in Users} :
          IF caller = Null
          THEN req' = [req EXCEPT ![r] = [ReqIdle EXCEPT !.resp = 401]]
          ELSE req' = [req EXCEPT ![r] = [ReqIdle EXCEPT !.pc = "getGroup",
                          !.caller = caller, !.groupId = groupId, !.body = body]]
    /\ ops' = ops + 1
    /\ UNCHANGED <<gm, gmCounter, autoIds, sess>>
    /\ UNCHANGED <<aggVars, delVars, extVars, verVars, pageVars, subVars>>

\* routes.ts 184-188
ReqGetGroup(r) ==
    /\ req[r].pc = "getGroup"
    /\ IF req[r].groupId \notin GroupDocs
       THEN req' = [req EXCEPT ![r].pc = "idle", ![r].resp = 404]
       ELSE req' = [req EXCEPT ![r].pc = "isAdmin"]
    /\ UNCHANGED <<gm, gmCounter, autoIds, sess, ops>>
    /\ UNCHANGED <<aggVars, delVars, extVars, verVars, pageVars, subVars>>

\* firestore.ts 219-227
isGroupAdmin(userId, groupId) ==
    {d \in gm : d.userId = userId /\ d.groupId = groupId /\ d.isAdmin} # {}

\* routes.ts 190-199 and 203-206
ReqIsAdmin(r) ==
    /\ req[r].pc = "isAdmin"
    /\ IF ~isGroupAdmin(req[r].caller, req[r].groupId)
       THEN req' = [req EXCEPT ![r].pc = "idle", ![r].resp = 403]
       ELSE IF req[r].body = None
       THEN req' = [req EXCEPT ![r].pc = "idle", ![r].resp = 400]
       ELSE req' = [req EXCEPT ![r].pc = "counterGet"]
    /\ UNCHANGED <<gm, gmCounter, autoIds, sess, ops>>
    /\ UNCHANGED <<aggVars, delVars, extVars, verVars, pageVars, subVars>>

\* firestore.ts 157-162: the counter document is read
ReqCounterGet(r) ==
    /\ req[r].pc = "counterGet"
    /\ req' = [req EXCEPT ![r].pc = "counterWrite",
                          ![r].nextId = IF gmCounter = None THEN 1 ELSE gmCounter[1] + 1]
    /\ UNCHANGED <<gm, gmCounter, autoIds, sess, ops>>
    /\ UNCHANGED <<aggVars, delVars, extVars, verVars, pageVars, subVars>>

\* firestore.ts 161-166: the counter document is written
ReqCounterWrite(r) ==
    /\ req[r].pc = "counterWrite"
    /\ gmCounter' = Some(req[r].nextId)
    /\ req' = [req EXCEPT ![r].pc = "docSet"]
    /\ UNCHANGED <<gm, autoIds, sess, ops>>
    /\ UNCHANGED <<aggVars, delVars, extVars, verVars, pageVars, subVars>>

\* firestore.ts 168-176 and routes.ts 201-202
ReqDocSet(r) ==
    /\ req[r].pc = "docSet"
    /\ gm' = SetDoc(gm, [key |-> NumKey(req[r].nextId), groupId |-> req[r].groupId,
                         userId |-> req[r].body[1], isAdmin |-> FALSE])
    /\ req' = [req EXCEPT ![r].pc = "idle", ![r].resp = 201]
    /\ UNCHANGED <<gmCounter, autoIds, sess, ops>>
    /\ UNCHANGED <<aggVars, delVars, extVars, verVars, pageVars, subVars>>

\* routes.ts 203-208: a store call rejects
ReqFails(r) ==
    /\ req[r].pc \in {"getGroup", "isAdmin", "counterGet", "counterWrite", "docSet"}
    /\ req' = [req EXCEPT ![r].pc = "idle", ![r].resp = 500]
    /\ UNCHANGED <<gm, gmCounter, autoIds, sess, ops>>
    /\ UNCHANGED <<aggVars, delVars, extVars, verVars, pageVars, subVars>>

MemIdle ==
    /\ gm = {}
    /\ gmCounter = None
    /\ autoIds = 0
    /\ sess = [s \in Sessions |-> SessIdle]
    /\ req = [r \in Reqs |-> ReqIdle]
    /\ ops = 0

----------------------------------------------------------------------------
(* Registration and the routes that answer with user data (server/routes)  *)

MaxRegs == 2        \* registration requests started

RegIds == {"q1", "q2"}
Usernames == {"ann", "bob"}
MailAddrs == {"ann@x", "bob@x"}
Passwords == {"pw1", "pw2"}
\* request bodies that insertUserSchema accepts
RegBodies == [username : Usernames, email : MailAddrs, password : Passwords]

RegIdle == [pc |-> "idle", body |-> None, nextId |-> 0, status |-> 0,
            out |-> None, session |-> None]
NoResponse == [route |-> "none", status |-> 0, body |-> {}, session |-> None]

RegAtRest ==
    /\ uStore = {}
    /\ uCounter = None
    /\ reg = [q \in RegIds |-> RegIdle]
    /\ regOps = 0
    /\ httpOut = NoResponse

\* const { password, ...userWithoutPassword } = user
WithoutPassword(u) == [id |-> u.id, username |-> u.username, email |-> u.email]

getUserByUsername(username) == {u \in uStore : u.username = username}
getUserByEmail(email) == {u \in uStore : u.email = email}
getUser(id) == {u \in uStore : u.id = id}

\* routes.ts 61-64 and 80-83: the request arrives and its body is parsed
RegStart(q) ==
    /\ reg[q].pc = "idle"
    /\ regOps < MaxRegs
    /\ regOps' = regOps + 1
    /\ \/ reg' = [reg EXCEPT ![q] = [RegIdle EXCEPT !.status = 400]]
       \/ \E body \in RegBodies :
             reg' = [reg EXCEPT ![q] = [RegIdle EXCEPT !.pc = "byUsername",
                                                       !.body = Some(body)]]
    /\ UNCHANGED <<uStore, uCounter, httpOut>>
    /\ UNCHANGED regRest

\* routes.ts 66-71: getUserByUsername answers; || goes on to the email only
\* when no user has the username
RegByUsername(q) ==
    /\ reg[q].pc = "byUsername"
    /\ IF getUserByUsername(reg[q].body[1].username) # {}
       THEN reg' = [reg EXCEPT ![q].pc = "idle", ![q].status = 400]
       ELSE reg' = [reg EXCEPT ![q].pc = "byEmail"]
    /\ UNCHANGED <<uStore, uCounter, regOps, httpOut>>
    /\ UNCHANGED regRest

\* routes.ts 66-71: getUserByEmail answers
RegByEmail(q) ==
    /\ reg[q].pc = "byEmail"
    /\ IF getUserByEmail(reg[q].body[1].email) # {}
       THEN reg' = [reg EXCEPT ![q].pc = "idle", ![q].status = 400]
       ELSE reg' = [reg EXCEPT ![q].pc = "counterGet"]
    /\ UNCHANGED <<uStore, uCounter, regOps, httpOut>>
    /\ UNCHANGED regRest

\* firestore.ts 74-77: the counter document is read
RegCounterGet(q) ==
    /\ reg[q].pc = "counterGet"
    /\ reg' = [reg EXCEPT ![q].pc = "counterWrite",
                          ![q].nextId = IF uCounter = None THEN 1 ELSE uCounter[1] + 1]
    /\ UNCHANGED <<uStore, uCounter, regOps, httpOut>>
    /\ UNCHANGED regRest

\* firestore.ts 78-83: the counter document is written
RegCounterWrite(q) ==
    /\ reg[q].pc = "counterWrite"
    /\ uCounter' = Some(reg[q].nextId)
    /\ reg' = [reg EXCEPT ![q].pc = "docSet"]
    /\ UNCHANGED <<uStore, regOps, httpOut>>
    /\ UNCHANGED regRest

\* firestore.ts 85-91 and routes.ts 73-79: the user document is set, the
\* session is opened and the user is returned without the password
RegDocSet(q) ==
    /\ reg[q].pc = "docSet"
    /\ LET user == [key |-> reg[q].nextId, id |-> reg[q].nextId,
                    username |-> reg[q].body[1].username,
                    email |-> reg[q].body[1].email,
                    password |-> reg[q].body[1].password]
       IN /\ uStore' = SetDoc(uStore, user)
          /\ reg' = [reg EXCEPT ![q].pc = "idle", ![q].status = 201,
                                ![q].out = Some(WithoutPassword(user)),
                                ![q].session = Some(user.id)]
    /\ UNCHANGED <<uCounter, regOps, httpOut>>
    /\ UNCHANGED regRest

\* routes.ts 84-86: a store call rejects
RegFails(q) ==
    /\ reg[q].pc \in {"byUsername", "byEmail", "counterGet", "counterWrite", "docSet"}
    /\ reg' = [reg EXCEPT ![q].pc = "idle", ![q].status = 500]
    /\ UNCHANGED <<uStore, uCounter, regOps, httpOut>>
    /\ UNCHANGED regRest

\* the user ids of the open sessions
SessionIds == {reg[q].session[1] : q \in {x \in RegIds : reg[x].session # None}}

\* routes.ts 89-112: POST /api/auth/login
Login ==
    /\ \E email \in MailAddrs \cup {""}, password \in Passwords :
          IF email = ""
          THEN httpOut' = [NoResponse EXCEPT !.route = "login", !.status = 400]
          ELSE IF getUserByEmail(email) = {}
          THEN httpOut' = [NoResponse EXCEPT !.route = "login", !.status = 401]
          ELSE \E user \in getUserByEmail(email) :
                  IF user.password # password
                  THEN httpOut' = [NoResponse EXCEPT !.route = "login", !.status = 401]
                  ELSE httpOut' = [route |-> "login", status |-> 200,
                                   body |-> {WithoutPassword(user)},
                                   session |-> Some(user.id)]
    /\ UNCHANGED <<uStore, uCounter, reg, regOps>>
    /\ UNCHANGED regRest

\* routes.ts 123-136: GET /api/auth/me
Me ==
    /\ \/ /\ SessionIds = {}
          /\ httpOut' = [NoResponse EXCEPT !.route = "me", !.status = 401]
       \/ \E id \in SessionIds :
             IF getUser(id) = {}
             THEN httpOut' = [NoResponse EXCEPT !.route = "me", !.status = 404]
             ELSE \E user \in getUser(id) :
                     httpOut' = [NoResponse EXCEPT !.route = "me", !.status = 200,
                                                   !.body = {WithoutPassword(user)}]
    /\ UNCHANGED <<uStore, uCounter, reg, regOps>>
    /\ UNCHANGED regRest

\* firestore.ts 196-217, 327-349 and 401-449: each membership or submission
\* found is returned with the whole document of its user
Populated(ids) == {u \in uStore : u.key \in ids}

\* routes.ts 211-226, 332-347 and 377-392: the members of a group, the
\* submissions of a task and the leaderboard of a group; ids are the users of
\* the memberships or submissions that the query found
ListRoute(route) ==
    /\ \/ /\ SessionIds = {}
          /\ httpOut' = [NoResponse EXCEPT !.route = route, !.status = 401]
       \/ /\ SessionIds # {}
          /\ \/ httpOut' = [NoResponse EXCEPT !.route = route, !.status = 404]
             \/ \E ids \in SUBSET (1..MaxRegs) :
                   httpOut' = [NoResponse EXCEPT !.route = route, !.status = 200,
                                                 !.body = Populated(ids)]
    /\ UNCHANGED <<uStore, uCounter, reg, regOps>>
    /\ UNCHANGED regRest

GetMembers == ListRoute("members")
GetSubmissions == ListRoute("submissions")
GetLeaderboard == ListRoute("leaderboard")

\* routes.ts 247-279: POST /api/groups/:id/messages answers with the message
\* and the document of its author
PostMessage ==
    /\ \/ /\ SessionIds = {}
          /\ httpOut' = [NoResponse EXCEPT !.route = "message", !.status = 401]
       \/ \E id \in SessionIds :
             \/ httpOut' = [NoResponse EXCEPT !.route = "message", !.status = 404]
             \/ httpOut' = [NoResponse EXCEPT !.route = "message", !.status = 201,
                                              !.body = getUser(id)]
    /\ UNCHANGED <<uStore, uCounter, reg, regOps>>
    /\ UNCHANGED regRest

----------------------------------------------------------------------------
(* The Leaderboard page: the selection of a group and of a timeframe *)

\* Leaderboard.tsx 201 and 209; last is the call started most recently
SelIdle == sel = [groupId |-> Null, tf |-> "all", last |-> Null]

----------------------------------------------------------------------------
(* The Profile page and the profile that the TaskDetails page loads *)

\* a document is a function from its field names to their values
NoFields == [k \in {} |-> Null]
Merge(old, new) ==
    [k \in DOMAIN old \cup DOMAIN new |-> IF k \in DOMAIN new THEN new[k] ELSE old[k]]
\* data.k of a document: undefined when the field is not there
Field(data, k) == IF k \in DOMAIN data THEN data[k] ELSE Null

\* doc: users/{uid}; saved: the handle of the last successful save;
\* fresh: the TaskDetails page has loaded the profile since that save
ProfIdle == prof = [doc |-> None, saved |-> "", fresh |-> FALSE]

\* Profile.tsx 137-146: the fields that setDoc writes
ProfileData(displayName, leetcodeUsername) ==
    [name |-> IF Falsy(displayName) THEN "User" ELSE displayName,
     leetcodeUsername |-> IF Falsy(leetcodeUsername) THEN Null ELSE leetcodeUsername]

\* Profile.tsx 103-160: the form is validated and merged into users/{uid};
\* the validation or the write may fail
handleSaveProfile ==
    /\ \E displayName \in {"", "Ann"}, leetcodeUsername \in Handles \cup {""} :
          \/ UNCHANGED prof
          \/ prof' = [doc |-> Some(Merge(IF prof.doc = None THEN NoFields ELSE prof.doc[1],
                                         ProfileData(displayName, leetcodeUsername))),
                      saved |-> leetcodeUsername,
                      fresh |-> FALSE]
    /\ UNCHANGED pageVars
    /\ UNCHANGED profRest

\* TaskDetails.tsx 134-138 (with 87-96): the page of a LeetCode task is
\* loaded; userProfile is the user's document when it exists
fetchTaskDetails ==
    /\ btnVerifying = 0
    /\ LET userProfile == IF prof.doc = None THEN NoFields ELSE prof.doc[1]
           handle == Field(userProfile, "leetCodeUsername") IN
       pg' = [type |-> "leetcode", link |-> <<"/", "problems", "/", "two-sum">>,
              handle |-> IF Falsy(handle) THEN "" ELSE handle]
    /\ prof' = [prof EXCEPT !.fresh = TRUE]
    /\ UNCHANGED <<vStatus, vMessage, form, isSubmitting, subPc, btnVerifying,
                   hasUserSubmitted, pageSubs, attempts, callsIssued, toast,
                   tasksPc, tasksSubmitted>>
    /\ UNCHANGED profRest

----------------------------------------------------------------------------
(* Submissions of a task and handleDeleteTask of the TaskDetails page *)

\* the ids of the tasks collection of the deletion
DocIds == 1..(MaxDocs + 1)

TdelStart == [phase |-> "idle", taskId |-> 0, groupId |-> Null, snap |-> 0, errors |-> 0]

CasIdle ==
    /\ dSubs = [t \in DocIds |-> 0]
    /\ tdel = TdelStart

----------------------------------------------------------------------------
(* The group chat: the snapshot listener of the messages (part_001) *)

SentAts == 1..2     \* the sentAt times that the clients put on messages
UserInfos == {"document", "current user", "Unknown User"}

NothingShown == [from |-> 0, list |-> <<>>]

ChatIdle ==
    /\ msgStore = <<>>
    /\ cbs = <<>>
    /\ shown = NothingShown

\* Array.prototype.sort((a, b) => time(a.sentAt) - time(b.sentAt)): stable,
\* ascending
RECURSIVE InsertBySentAt(_, _)
InsertBySentAt(sorted, m) ==
    IF sorted = <<>> THEN <<m>>
    ELSE IF Head(sorted).sentAt <= m.sentAt
         THEN <<Head(sorted)>> \o InsertBySentAt(Tail(sorted), m)
         ELSE <<m>> \o sorted

RECURSIVE SortBySentAt(_)
SortBySentAt(s) ==
    IF s = <<>> THEN <<>>
    ELSE InsertBySentAt(SortBySentAt(SubSeq(s, 1, Len(s) - 1)), s[Len(s)])

\* the message without the user that the callback attached to it
Bare(m) == [id |-> m.id, sentAt |-> m.sentAt]
BareList(list) == [i \in 1..Len(list) |-> Bare(list[i])]

\* part_001 133-136 and 183-188: a message is added to the group (under an
\* id that places it anywhere in the query's order) and the listener is called
\* with the new snapshot; a snapshot without documents is shown at once
SnapshotArrives ==
    /\ Len(cbs) < MaxSnaps
    /\ \E at \in 0..Len(msgStore), sentAt \in SentAts, added \in BOOLEAN :
          LET m == [id |-> Len(cbs) + 1, sentAt |-> sentAt]
              docs == IF added
                      THEN SubSeq(msgStore, 1, at) \o <<m>>
                               \o SubSeq(msgStore, at + 1, Len(msgStore))
                      ELSE msgStore
          IN /\ added \/ (cbs = <<>> /\ at = 0 /\ sentAt = 1)
             /\ msgStore' = docs
             /\ cbs' = Append(cbs, [docs |-> docs, data |-> <<>>,
                                    done |-> docs = <<>>])
             /\ shown' = IF docs = <<>> THEN [from |-> Len(cbs) + 1, list |-> <<>>]
                          ELSE shown
    /\ UNCHANGED chatRest

\* the messages state after setMessages of callback n
Displayed(n, messagesData) == [from |-> n, list |-> SortBySentAt(messagesData)]

\* part_001 137-188: getDoc of the user of the callback's next message
\* resolves or rejects and the message is pushed; after the last message the
\* list is sorted and stored with setMessages
UserResolved(n) ==
    /\ n \in 1..Len(cbs)
    /\ ~cbs[n].done
    /\ \E info \in UserInfos :
          LET messageDoc == cbs[n].docs[Len(cbs[n].data) + 1]
              messagesData == Append(cbs[n].data,
                                     [id |-> messageDoc.id, sentAt |-> messageDoc.sentAt,
                                      user |-> info])
              last == Len(messagesData) = Len(cbs[n].docs)
          IN /\ cbs' = [cbs EXCEPT ![n].data = messagesData, ![n].done = last]
             /\ shown' = IF last THEN Displayed(n, messagesData) ELSE shown
    /\ UNCHANGED msgStore
    /\ UNCHANGED chatRest

----------------------------------------------------------------------------
(* The other creating routes of the API: POST /api/groups/:id/tasks and    *)
(* POST /api/groups.  They share the requests of the members route.        *)

GroupName(n) == IF n = 1 THEN "g1" ELSE IF n = 2 THEN "g2" ELSE "g3"

ApiIdle ==
    /\ createdGroups = {}
    /\ groupCounter = Some(1)
    /\ apiTasks = {}
    /\ taskCounter = None

LateIdle == RegAtRest /\ SelIdle /\ ProfIdle /\ CasIdle /\ ChatIdle

ExtIdle == ApiIdle /\ LateIdle

\* routes.ts 39-44 and 299-302: the request arrives
TaskReqStart(r) ==
    /\ req[r].pc = "idle"
    /\ ops < MaxOps
    /\ \E caller \in {Null, Admin, "A"}, groupId \in Groups,
          body \in {None, Some("task")} :
          IF caller = Null
          THEN req' = [req EXCEPT ![r] = [ReqIdle EXCEPT !.resp = 401]]
          ELSE req' = [req EXCEPT ![r] = [ReqIdle EXCEPT !.pc = "tGetGroup",
                          !.caller = caller, !.groupId = groupId, !.body = body]]
    /\ ops' = ops + 1
    /\ UNCHANGED <<gm, gmCounter, autoIds, sess, apiVars>>
    /\ UNCHANGED <<aggVars, delVars, verVars, pageVars, subVars, lateVars>>

\* routes.ts 304-308
TaskReqGetGroup(r) ==
    /\ req[r].pc = "tGetGroup"
    /\ IF req[r].groupId \notin GroupDocs
       THEN req' = [req EXCEPT ![r].pc = "idle", ![r].resp = 404]
       ELSE req' = [req EXCEPT ![r].pc = "tIsAdmin"]
    /\ UNCHANGED <<gm, gmCounter, autoIds, sess, ops, apiVars>>
    /\ UNCHANGED <<aggVars, delVars, verVars, pageVars, subVars, lateVars>>

\* the route without its admin test
TaskReqIsAdmin_NoAdminTest(r) ==
    /\ req[r].pc = "tIsAdmin"
    /\ IF req[r].body = None
       THEN req' = [req EXCEPT ![r].pc = "idle", ![r].resp = 400]
       ELSE req' = [req EXCEPT ![r].pc = "tCounterGet"]
    /\ UNCHANGED <<gm, gmCounter, autoIds, sess, ops, apiVars>>
    /\ UNCHANGED <<aggVars, delVars, verVars, pageVars, subVars, lateVars>>

\* routes.ts 310-320 and 324-327
TaskReqIsAdmin(r) ==
    /\ req[r].pc = "tIsAdmin"
    /\ IF ~isGroupAdmin(req[r].caller, req[r].groupId)
       THEN req' = [req EXCEPT ![r].pc = "idle", ![r].resp = 403]
       ELSE IF req[r].body = None
       THEN req' = [req EXCEPT ![r].pc = "idle", ![r].resp = 400]
       ELSE req' = [req EXCEPT ![r].pc = "tCounterGet"]
    /\ UNCHANGED <<gm, gmCounter, autoIds, sess, ops, apiVars>>
    /\ UNCHANGED <<aggVars, delVars, verVars, pageVars, subVars, lateVars>>

\* firestore.ts 302-306: the counter document is read
TaskCounterGet(r) ==
    /\ req[r].pc = "tCounterGet"
    /\ req' = [req EXCEPT ![r].pc = "tCounterWrite",
                          ![r].nextId = IF taskCounter = None THEN 1 ELSE taskCounter[1] + 1]
    /\ UNCHANGED <<gm, gmCounter, autoIds, sess, ops, apiVars>>
    /\ UNCHANGED <<aggVars, delVars, verVars, pageVars, subVars, lateVars>>

\* firestore.ts 305-310: the counter document is written
TaskCounterWrite(r) ==
    /\ req[r].pc = "tCounterWrite"
    /\ taskCounter' = Some(req[r].nextId)
    /\ req' = [req EXCEPT ![r].pc = "tDocSet"]
    /\ UNCHANGED <<gm, gmCounter, autoIds, sess, ops, createdGroups, groupCounter, apiTasks>>
    /\ UNCHANGED <<aggVars, delVars, verVars, pageVars, subVars, lateVars>>

\* firestore.ts 312-323 and routes.ts 322-323
TaskDocSet(r) ==
    /\ req[r].pc = "tDocSet"
    /\ apiTasks' = SetDoc(apiTasks, [key |-> NumKey(req[r].nextId),
                                     groupId |-> req[r].groupId,
                                     creatorId |-> req[r].caller])
    /\ req' = [req EXCEPT ![r].pc = "idle", ![r].resp = 201]
    /\ UNCHANGED <<gm, gmCounter, autoIds, sess, ops, createdGroups, groupCounter,
                   taskCounter>>
    /\ UNCHANGED <<aggVars, delVars, verVars, pageVars, subVars, lateVars>>

\* routes.ts 324-329: a store call rejects
TaskReqFails(r) ==
    /\ req[r].pc \in {"tGetGroup", "tIsAdmin", "tCounterGet", "tCounterWrite", "tDocSet"}
    /\ req' = [req EXCEPT ![r].pc = "idle", ![r].resp = 500]
    /\ UNCHANGED <<gm, gmCounter, autoIds, sess, ops, apiVars>>
    /\ UNCHANGED <<aggVars, delVars, verVars, pageVars, subVars, lateVars>>

\* routes.ts 39-44 and 149-152, 156-159: POST /api/groups arrives
GroupReqStart(r) ==
    /\ req[r].pc = "idle"
    /\ ops < MaxOps
    /\ \E caller \in {Null, Admin, "A"}, body \in {None, Some("group")} :
          IF caller = Null
          THEN req' = [req EXCEPT ![r] = [ReqIdle EXCEPT !.resp = 401]]
          ELSE IF body = None
          THEN req' = [req EXCEPT ![r] = [ReqIdle EXCEPT !.resp = 400]]
          ELSE req' = [req EXCEPT ![r] = [ReqIdle EXCEPT !.pc = "gCounterGet",
                          !.caller = caller, !.body = body]]
    /\ ops' = ops + 1
    /\ UNCHANGED <<gm, gmCounter, autoIds, sess, apiVars>>
    /\ UNCHANGED <<aggVars, delVars, verVars, pageVars, subVars, lateVars>>

\* firestore.ts 122-127: counters/groups is read
GroupCounterGet(r) ==
    /\ req[r].pc = "gCounterGet"
    /\ req' = [req EXCEPT ![r].pc = "gCounterWrite",
                          ![r].nextId = IF groupCounter = None THEN 1
                                        ELSE groupCounter[1] + 1]
    /\ UNCHANGED <<gm, gmCounter, autoIds, sess, ops, apiVars>>
    /\ UNCHANGED <<aggVars, delVars, verVars, pageVars, subVars, lateVars>>

\* firestore.ts 126-131: counters/groups is written
GroupCounterWrite(r) ==
    /\ req[r].pc = "gCounterWrite"
    /\ groupCounter' = Some(req[r].nextId)
    /\ req' = [req EXCEPT ![r].pc = "gDocSet"]
    /\ UNCHANGED <<gm, gmCounter, autoIds, sess, ops, createdGroups, apiTasks, taskCounter>>
    /\ UNCHANGED <<aggVars, delVars, verVars, pageVars, subVars, lateVars>>

\* firestore.ts 133-141: the group document is set
GroupDocSet(r) ==
    /\ req[r].pc = "gDocSet"
    /\ createdGroups' = createdGroups \cup {GroupName(req[r].nextId)}
    /\ req' = [req EXCEPT ![r].pc = "gmCounterGet",
                          ![r].groupId = GroupName(req[r].nextId)]
    /\ UNCHANGED <<gm, gmCounter, autoIds, sess, ops, groupCounter, apiTasks, taskCounter>>
    /\ UNCHANGED <<aggVars, delVars, verVars, pageVars, subVars, lateVars>>

\* firestore.ts 143-147 and 157-162: addUserToGroup for the creator, the
\* counter document is read
GroupMemCounterGet(r) ==
    /\ req[r].pc = "gmCounterGet"
    /\ req' = [req EXCEPT ![r].pc = "gmCounterWrite",
                          ![r].nextId = IF gmCounter = None THEN 1 ELSE gmCounter[1] + 1]
    /\ UNCHANGED <<gm, gmCounter, autoIds, sess, ops, apiVars>>
    /\ UNCHANGED <<aggVars, delVars, verVars, pageVars, subVars, lateVars>>

\* firestore.ts 161-166
GroupMemCounterWrite(r) ==
    /\ req[r].pc = "gmCounterWrite"
    /\ gmCounter' = Some(req[r].nextId)
    /\ req' = [req EXCEPT ![r].pc = "gmDocSet"]
    /\ UNCHANGED <<gm, autoIds, sess, ops, apiVars>>
    /\ UNCHANGED <<aggVars, delVars, verVars, pageVars, subVars, lateVars>>

\* firestore.ts 168-176 and routes.ts 154-155: the creator's membership,
\* with isAdmin true
GroupMemDocSet(r) ==
    /\ req[r].pc = "gmDocSet"
    /\ gm' = SetDoc(gm, [key |-> NumKey(req[r].nextId), groupId |-> req[r].groupId,
                         userId |-> req[r].caller, isAdmin |-> TRUE])
    /\ req' = [req EXCEPT ![r].pc = "idle", ![r].resp = 201]
    /\ UNCHANGED <<gmCounter, autoIds, sess, ops, apiVars>>
    /\ UNCHANGED <<aggVars, delVars, verVars, pageVars, subVars, lateVars>>

\* routes.ts 156-161: a store call rejects
GroupReqFails(r) ==
    /\ req[r].pc \in {"gCounterGet", "gCounterWrite", "gDocSet", "gmCounterGet",
                      "gmCounterWrite", "gmDocSet"}
    /\ req' = [req EXCEPT ![r].pc = "idle", ![r].resp = 500]
    /\ UNCHANGED <<gm, gmCounter, autoIds, sess, ops, apiVars>>
    /\ UNCHANGED <<aggVars, delVars, verVars, pageVars, subVars, lateVars>>

----------------------------------------------------------------------------
(* Creating a submission: the page, the route with FirestoreStorage, and    *)
(* MemStorage                                                               *)

Submitters == {"p1", "p2"}
Paths == {"client", "server", "mem"}

SubmitterIdle == [pc |-> "idle", path |-> Null, taskId |-> Null, nextId |-> 0,
                  resp |-> 0, key |-> None]

\* a submitter starts: the page calls addDoc, a request reaches the route
\* (routes.ts 39-44, 349-352), or MemStorage.submitTask is called
StartSubmit(p) ==
    /\ sub[p].pc = "idle"
    /\ sub[p].path = Null
    /\ submits < MaxSubmits
    /\ submits' = submits + 1
    /\ \E path \in Paths, taskId \in TaskIds, authenticated \in BOOLEAN :
          IF path = "server" /\ ~authenticated
          THEN sub' = [sub EXCEPT ![p] = [SubmitterIdle EXCEPT !.path = path, !.resp = 401]]
          ELSE sub' = [sub EXCEPT ![p] = [SubmitterIdle EXCEPT !.path = path,
                          !.taskId = taskId,
                          !.pc = IF path = "server" THEN "getTask" ELSE "write"]]
    /\ UNCHANGED <<tsDocs, tsCounter, tsAuto, memSubs, memSubCounter>>
    /\ UNCHANGED <<aggVars, delVars, extVars, verVars, pageVars, memVars>>

\* TaskDetails.tsx 257-268: addDoc(task_submissions)
ClientAddSubmission(p) ==
    /\ sub[p].pc = "write"
    /\ sub[p].path = "client"
    /\ tsAuto' = tsAuto + 1
    /\ tsDocs' = SetDoc(tsDocs, [key |-> AutoKey(tsAuto + 1), taskId |-> sub[p].taskId,
                                 by |-> p, status |-> "completed"])
    /\ sub' = [sub EXCEPT ![p].pc = "idle", ![p].resp = 201,
                          ![p].key = Some(AutoKey(tsAuto + 1))]
    /\ UNCHANGED <<tsCounter, memSubs, memSubCounter, submits>>
    /\ UNCHANGED <<aggVars, delVars, extVars, verVars, pageVars, memVars>>

\* storage.ts 283-293
MemSubmitTask(p) ==
    /\ sub[p].pc = "write"
    /\ sub[p].path = "mem"
    /\ memSubCounter' = memSubCounter + 1
    /\ memSubs' = SetDoc(memSubs, [key |-> NumKey(memSubCounter), taskId |-> sub[p].taskId,
                                   by |-> p, status |-> "completed"])
    /\ sub' = [sub EXCEPT ![p].pc = "idle", ![p].resp = 201,
                          ![p].key = Some(NumKey(memSubCounter))]
    /\ UNCHANGED <<tsDocs, tsCounter, tsAuto, submits>>
    /\ UNCHANGED <<aggVars, delVars, extVars, verVars, pageVars, memVars>>

\* routes.ts 354-364 with firestore.ts 294-298; the body is parsed
RouteGetTask(p) ==
    /\ sub[p].pc = "getTask"
    /\ \E bodyValid \in BOOLEAN :
          IF tasks[sub[p].taskId] = NoDoc
          THEN sub' = [sub EXCEPT ![p].pc = "idle", ![p].resp = 404]
          ELSE IF ~bodyValid
          THEN sub' = [sub EXCEPT ![p].pc = "idle", ![p].resp = 400]
          ELSE sub' = [sub EXCEPT ![p].pc = "counterGet"]
    /\ UNCHANGED <<tsDocs, tsCounter, tsAuto, memSubs, memSubCounter, submits>>
    /\ UNCHANGED <<aggVars, delVars, extVars, verVars, pageVars, memVars>>

\* firestore.ts 376-381: the counter document is read
SubmitCounterGet(p) ==
    /\ sub[p].pc = "counterGet"
    /\ sub' = [sub EXCEPT ![p].pc = "counterWrite",
                          ![p].nextId = IF tsCounter = None THEN 1 ELSE tsCounter[1] + 1]
    /\ UNCHANGED <<tsDocs, tsCounter, tsAuto, memSubs, memSubCounter, submits>>
    /\ UNCHANGED <<aggVars, delVars, extVars, verVars, pageVars, memVars>>

\* firestore.ts 380-385: the counter document is written
SubmitCounterWrite(p) ==
    /\ sub[p].pc = "counterWrite"
    /\ tsCounter' = Some(sub[p].nextId)
    /\ sub' = [sub EXCEPT ![p].pc = "docSet"]
    /\ UNCHANGED <<tsDocs, tsAuto, memSubs, memSubCounter, submits>>
    /\ UNCHANGED <<aggVars, delVars, extVars, verVars, pageVars, memVars>>

\* firestore.ts 387-397 and routes.ts 366-367
SubmitDocSet(p) ==
    /\ sub[p].pc = "docSet"
    /\ tsDocs' = SetDoc(tsDocs, [key |-> NumKey(sub[p].nextId), taskId |-> sub[p].taskId,
                                 by |-> p, status |-> "completed"])
    /\ sub' = [sub EXCEPT ![p].pc = "idle", ![p].resp = 201,
                          ![p].key = Some(NumKey(sub[p].nextId))]
    /\ UNCHANGED <<tsCounter, tsAuto, memSubs, memSubCounter, submits>>
    /\ UNCHANGED <<aggVars, delVars, extVars, verVars, pageVars, memVars>>

\* routes.ts 368-373: a store call of the route rejects
RouteFails(p) ==
    /\ sub[p].pc \in {"getTask", "counterGet", "counterWrite", "docSet"}
    /\ sub' = [sub EXCEPT ![p].pc = "idle", ![p].resp = 500]
    /\ UNCHANGED <<tsDocs, tsCounter, tsAuto, memSubs, memSubCounter, submits>>
    /\ UNCHANGED <<aggVars, delVars, extVars, verVars, pageVars, memVars>>

SubIdle ==
    /\ tsDocs = {}
    /\ tsCounter = None
    /\ tsAuto = 0
    /\ memSubs = {}
    /\ memSubCounter = 1
    /\ sub = [p \in Submitters |-> SubmitterIdle]
    /\ submits = 0

----------------------------------------------------------------------------
(* Deleting a group: handleDeleteGroup of the group-settings dialog *)

Deleted == "g1"     \* the groupId of the dialog
Colls == <<"group_members", "messages", "tasks">>

\* a collection with n1 documents of g1 followed by n2 documents of g2; one
\* more id is free for a document written during the deletion
CollOf(n1, n2) ==
    [id \in 1..(MaxDocs + 1) |->
        IF id <= n1 THEN "g1" ELSE IF id <= n1 + n2 THEN "g2" ELSE NoDoc]

CollStates ==
    UNION {{CollOf(n1, n2) : n2 \in 0..(MaxDocs - n1)} : n1 \in 0..MaxDocs}

\* query(collection, where('groupId', '==', groupId)): the ids of the snapshot
idsOfGroup(c) == {id \in DOMAIN dColl[c] : dColl[c][id] = Deleted}

DelStart == [phase |-> "idle", step |-> 0, snap |-> {}, errors |-> 0, ok |-> 0]

DelIdle ==
    /\ dGroup = FALSE
    /\ dColl = [c \in Range(Colls) |-> CollOf(0, 0)]
    /\ del = DelStart
    /\ wrote = FALSE

\* group-settings.tsx 487-491 and 337-340: Delete in the confirmation dialog
DeleteClick ==
    /\ del.phase = "idle"
    /\ del' = [del EXCEPT !.phase = "group"]
    /\ UNCHANGED <<dGroup, dColl, wrote>>
    /\ UNCHANGED <<aggVars, extVars, verVars, pageVars, memVars, subVars>>

\* group-settings.tsx 340: deleteDoc(doc(db, 'groups', groupId)) resolves
DeleteGroupDoc ==
    /\ del.phase = "group"
    /\ dGroup' = FALSE
    /\ del' = [del EXCEPT !.phase = "query", !.step = 1]
    /\ UNCHANGED <<dColl, wrote>>
    /\ UNCHANGED <<aggVars, extVars, verVars, pageVars, memVars, subVars>>

\* group-settings.tsx 343-352, 357-366, 371-380: getDocs of the step's
\* collection resolves and one deleteDoc per document of the snapshot is issued
DeleteQuery ==
    /\ del.phase = "query"
    /\ del' = [del EXCEPT !.phase = "delete", !.snap = idsOfGroup(Colls[del.step])]
    /\ UNCHANGED <<dGroup, dColl, wrote>>
    /\ UNCHANGED <<aggVars, extVars, verVars, pageVars, memVars, subVars>>

\* a last step that leaves the documents of its snapshot in place
DeleteAll_SkipsTasks ==
    /\ del.phase = "delete"
    /\ dColl' = IF del.step = Len(Colls) THEN dColl
                ELSE [dColl EXCEPT ![Colls[del.step]] =
                        [id \in DOMAIN @ |-> IF id \in del.snap THEN NoDoc ELSE @[id]]]
    /\ del' = IF del.step = Len(Colls)
              THEN [del EXCEPT !.phase = "done", !.snap = {}, !.ok = @ + 1]
              ELSE [del EXCEPT !.phase = "query", !.step = @ + 1, !.snap = {}]
    /\ UNCHANGED <<dGroup, wrote>>
    /\ UNCHANGED <<aggVars, extVars, verVars, pageVars, memVars, subVars>>

\* group-settings.tsx 354, 368, 382-390: Promise.all of the step's deletes
\* resolves; after the last step the success toast and the redirect
DeleteAll ==
    /\ del.phase = "delete"
    /\ dColl' = [dColl EXCEPT ![Colls[del.step]] =
                    [id \in DOMAIN @ |-> IF id \in del.snap THEN NoDoc ELSE @[id]]]
    /\ del' = IF del.step = Len(Colls)
              THEN [del EXCEPT !.phase = "done", !.snap = {}, !.ok = @ + 1]
              ELSE [del EXCEPT !.phase = "query", !.step = @ + 1, !.snap = {}]
    /\ UNCHANGED <<dGroup, wrote>>
    /\ UNCHANGED <<aggVars, extVars, verVars, pageVars, memVars, subVars>>

\* a failure path that puts the group document back
DeleteFails_Restores ==
    /\ del.phase \in {"group", "query", "delete"}
    /\ dGroup' = TRUE
    /\ del' = [del EXCEPT !.phase = "failed", !.snap = {}, !.errors = @ + 1]
    /\ UNCHANGED <<dColl, wrote>>
    /\ UNCHANGED <<aggVars, extVars, verVars, pageVars, memVars, subVars>>

\* group-settings.tsx 392-399: an awaited call rejects.  Of the deletes of a
\* Promise.all at least one failed; the others may have been carried out.
DeleteFails ==
    /\ del.phase \in {"group", "query", "delete"}
    /\ IF del.phase = "delete"
       THEN \E kept \in (SUBSET del.snap) \ {{}} :
               dColl' = [dColl EXCEPT ![Colls[del.step]] =
                           [id \in DOMAIN @ |->
                               IF id \in del.snap \ kept THEN NoDoc ELSE @[id]]]
       ELSE UNCHANGED dColl
    /\ del' = [del EXCEPT !.phase = "failed", !.snap = {}, !.errors = @ + 1]
    /\ UNCHANGED <<dGroup, wrote>>
    /\ UNCHANGED <<aggVars, extVars, verVars, pageVars, memVars, subVars>>

\* another client adds a document of the group (a message, a task, a
\* membership) while the deletion runs
ConcurrentWrite ==
    /\ del.phase \in {"group", "query", "delete"}
    /\ ~wrote
    /\ \E c \in Range(Colls) :
          \E id \in DOMAIN dColl[c] :
              /\ dColl[c][id] = NoDoc
              /\ \A j \in DOMAIN dColl[c] : dColl[c][j] = NoDoc => id <= j
              /\ dColl' = [dColl EXCEPT ![c][id] = Deleted]
    /\ wrote' = TRUE
    /\ UNCHANGED <<dGroup, del>>
    /\ UNCHANGED <<aggVars, extVars, verVars, pageVars, memVars, subVars>>

\* TaskDetails.tsx 257-268: a submission of a task that the page has loaded
\* is added to task_submissions
SubmitAdded ==
    /\ \E t \in DOMAIN dColl["tasks"] :
          /\ dColl["tasks"][t] # NoDoc
          /\ dSubs[t] < MaxSubmits
          /\ dSubs' = [dSubs EXCEPT ![t] = @ + 1]
    /\ UNCHANGED <<tdel, delVars>>
    /\ UNCHANGED casRest

\* TaskDetails.tsx 329-331: Delete on the page of an existing task, by an admin
DeleteTaskClick ==
    /\ tdel.phase \in {"idle", "done"}
    /\ \E t \in DOMAIN dColl["tasks"] :
          /\ dColl["tasks"][t] # NoDoc
          /\ tdel' = [tdel EXCEPT !.phase = "task", !.taskId = t,
                                   !.groupId = dColl["tasks"][t], !.snap = 0]
    /\ UNCHANGED <<dSubs, delVars>>
    /\ UNCHANGED casRest

\* TaskDetails.tsx 335: deleteDoc(doc(db, "tasks", taskId)) resolves
DeleteTaskDoc ==
    /\ tdel.phase = "task"
    /\ dColl' = [dColl EXCEPT !["tasks"][tdel.taskId] = NoDoc]
    /\ tdel' = [tdel EXCEPT !.phase = "query"]
    /\ UNCHANGED <<dSubs, dGroup, del, wrote>>
    /\ UNCHANGED casRest

\* TaskDetails.tsx 338-346: the submissions of the task are asked for and one
\* deleteDoc per document of the snapshot is issued
DeleteTaskQuery ==
    /\ tdel.phase = "query"
    /\ tdel' = [tdel EXCEPT !.phase = "delete", !.snap = dSubs[tdel.taskId]]
    /\ UNCHANGED <<dSubs, delVars>>
    /\ UNCHANGED casRest

\* TaskDetails.tsx 348: Promise.all of the deletes resolves
DeleteTaskSubs ==
    /\ tdel.phase = "delete"
    /\ dSubs' = [dSubs EXCEPT ![tdel.taskId] = @ - tdel.snap]
    /\ tdel' = [tdel EXCEPT !.phase = "message", !.snap = 0]
    /\ UNCHANGED delVars
    /\ UNCHANGED casRest

\* TaskDetails.tsx 350-365: the notification is added to the messages of the
\* task's group (under the first free id of the bounded collection), then the
\* success toast and the redirect
DeleteTaskMessage ==
    /\ tdel.phase = "message"
    /\ LET free == {id \in DOMAIN dColl["messages"] : dColl["messages"][id] = NoDoc} IN
       IF free = {} THEN UNCHANGED dColl
       ELSE dColl' = [dColl EXCEPT !["messages"][CHOOSE id \in free :
                                                    \A j \in free : id <= j] = tdel.groupId]
    /\ tdel' = [tdel EXCEPT !.phase = "done"]
    /\ UNCHANGED <<dSubs, dGroup, del, wrote>>
    /\ UNCHANGED casRest

\* TaskDetails.tsx 366-373: an awaited call rejects
DeleteTaskFails ==
    /\ tdel.phase \in {"task", "query", "delete", "message"}
    /\ tdel' = [tdel EXCEPT !.phase = "failed", !.snap = 0, !.errors = @ + 1]
    /\ UNCHANGED <<dSubs, delVars>>
    /\ UNCHANGED casRest

----------------------------------------------------------------------------
(* The Leaderboard page: fetchLeaderboardData step by step *)

FetchCalls == {"c1", "c2"}

FcallIdle == [pc |-> "new", groupId |-> Null, tf |-> Null, fetched |-> <<>>,
              stored |-> FALSE, failed |-> FALSE]

FetchIdle ==
    /\ loadingLeaderboard = FALSE
    /\ fcalls = [c \in FetchCalls |-> FcallIdle]
    /\ errToasts = 0

\* Leaderboard.tsx 299-308 (called from 406-417): the loading flag is set and
\* the tasks are asked for
FetchStart(c) ==
    /\ fcalls[c].pc = "new"
    /\ \E g \in Groups, tf \in Timeframes :
          fcalls' = [fcalls EXCEPT ![c] = [FcallIdle EXCEPT !.pc = "tasks", !.groupId = g,
                                              !.tf = tf, !.fetched = <<"tasks">>]]
    /\ loadingLeaderboard' = TRUE
    /\ UNCHANGED <<tasks, subs, userDocs, members, lb, errToasts>>
    /\ UNCHANGED <<delVars, extVars, verVars, pageVars, memVars, subVars>>

\* Leaderboard.tsx 308-347: the tasks arrive; without tasks the empty list is
\* stored and the call ends, otherwise the submissions are asked for
FetchTasksDone(c) ==
    /\ fcalls[c].pc = "tasks"
    /\ IF taskIdsOf(fcalls[c].groupId) = {}
       THEN /\ lb' = fetchLeaderboardData(fcalls[c].groupId, fcalls[c].tf)
            /\ loadingLeaderboard' = FALSE
            /\ fcalls' = [fcalls EXCEPT ![c].pc = "done", ![c].stored = TRUE]
       ELSE /\ fcalls' = [fcalls EXCEPT ![c].pc = "subs",
                                        ![c].fetched = Append(@, "task_submissions")]
            /\ UNCHANGED <<lb, loadingLeaderboard>>
    /\ UNCHANGED <<tasks, subs, userDocs, members, errToasts>>
    /\ UNCHANGED <<delVars, extVars, verVars, pageVars, memVars, subVars>>

\* Leaderboard.tsx 347-354: the submissions arrive, the users are asked for
FetchSubsDone(c) ==
    /\ fcalls[c].pc = "subs"
    /\ fcalls' = [fcalls EXCEPT ![c].pc = "users", ![c].fetched = Append(@, "users")]
    /\ UNCHANGED <<tasks, subs, userDocs, members, lb, loadingLeaderboard, errToasts>>
    /\ UNCHANGED <<delVars, extVars, verVars, pageVars, memVars, subVars>>

\* Leaderboard.tsx 354-392 and 400-402: the users arrive, the ranking is
\* folded, sorted and stored
FetchUsersDone(c) ==
    /\ fcalls[c].pc = "users"
    /\ lb' = fetchLeaderboardData(fcalls[c].groupId, fcalls[c].tf)
    /\ loadingLeaderboard' = FALSE
    /\ fcalls' = [fcalls EXCEPT ![c].pc = "done", ![c].stored = TRUE]
    /\ UNCHANGED <<tasks, subs, userDocs, members, errToasts>>
    /\ UNCHANGED <<delVars, extVars, verVars, pageVars, memVars, subVars>>

\* a failure path that asks again
FetchFails_Retries(c) ==
    /\ fcalls[c].pc \in {"tasks", "subs", "users"}
    /\ errToasts' = errToasts + 1
    /\ fcalls' = [fcalls EXCEPT ![c].failed = TRUE,
                                ![c].fetched = Append(@, @[Len(@)])]
    /\ UNCHANGED <<tasks, subs, userDocs, members, lb, loadingLeaderboard>>
    /\ UNCHANGED <<delVars, extVars, verVars, pageVars, memVars, subVars>>

\* Leaderboard.tsx 393-402: a fetch rejects
FetchFails(c) ==
    /\ fcalls[c].pc \in {"tasks", "subs", "users"}
    /\ errToasts' = errToasts + 1
    /\ loadingLeaderboard' = FALSE
    /\ fcalls' = [fcalls EXCEPT ![c].pc = "done", ![c].failed = TRUE]
    /\ UNCHANGED <<tasks, subs, userDocs, members, lb>>
    /\ UNCHANGED <<delVars, extVars, verVars, pageVars, memVars, subVars>>

\* Leaderboard.tsx 405-409 and 299-308: another group is selected and a call
\* is started for it without waiting for the calls that run
handleGroupChange(c) ==
    /\ fcalls[c].pc = "new"
    /\ \E g \in Groups :
          /\ sel' = [sel EXCEPT !.groupId = g, !.last = c]
          /\ fcalls' = [fcalls EXCEPT ![c] = [FcallIdle EXCEPT !.pc = "tasks",
                              !.groupId = g, !.tf = sel.tf, !.fetched = <<"tasks">>]]
    /\ loadingLeaderboard' = TRUE
    /\ UNCHANGED <<tasks, subs, userDocs, members, lb, errToasts>>
    /\ UNCHANGED selRest

\* Leaderboard.tsx 412-417 and 299-308: another timeframe is selected and,
\* when a group is selected, a call is started for it
handleTimeframeChange(c) ==
    /\ fcalls[c].pc = "new"
    /\ \E tf \in Timeframes :
          IF sel.groupId = Null
          THEN /\ sel' = [sel EXCEPT !.tf = tf]
               /\ UNCHANGED <<fcalls, loadingLeaderboard>>
          ELSE /\ sel' = [sel EXCEPT !.tf = tf, !.last = c]
               /\ fcalls' = [fcalls EXCEPT ![c] = [FcallIdle EXCEPT !.pc = "tasks",
                                   !.groupId = sel.groupId, !.tf = tf,
                                   !.fetched = <<"tasks">>]]
               /\ loadingLeaderboard' = TRUE
    /\ UNCHANGED <<tasks, subs, userDocs, members, lb, errToasts>>
    /\ UNCHANGED selRest

----------------------------------------------------------------------------
(* Specification SpecAgg: any store contents, then the three aggregations *)

NoRes == [rev |-> "none", verified |-> FALSE, error |-> None, problem |-> None,
          submissions |-> <<>>]
NoCall == [username |-> "", titleSlug |-> "", data |-> Thrown(""), recentData |-> Thrown("")]

VerIdle == vq = NoCall /\ vres = NoRes

SubRecords ==
    [taskId : TaskIds, userId : Users, status : Statuses, score : Scores, at : SubDays]
MemberRecords == [userId : Users, groupId : Groups]

NoLb == [impl |-> "none", groupId |-> Null, tf |-> Null, out |-> <<>>, queriedSubs |-> FALSE]

\* The stores the aggregations start from: the client page reads no
\* membership, so the stores with memberships carry one submission at most.
\* Groups and tasks are interchangeable, so T1 is the one that is in g1.
InitAgg ==
    /\ DelIdle
    /\ ExtIdle
    /\ tasks \in {t \in [TaskIds -> Groups \cup {NoDoc}] : t["T1"] = "g1"}
    /\ userDocs \in {Users, {"A"}}
    /\ \/ members = <<>> /\ subs \in BoundedSeq(SubRecords, MaxSubs)
       \/ members \in BoundedSeq(MemberRecords, MaxMembers)
          /\ subs \in BoundedSeq(SubRecords, 1)
    /\ lb = NoLb
    /\ FetchIdle
    /\ VerIdle
    /\ PageIdle
    /\ MemIdle
    /\ SubIdle

\* The store does not change under this specification, so a second
\* computation would reach nothing new: each behaviour computes once.
ClientFetchLeaderboard ==
    /\ lb = NoLb
    /\ \E g \in Groups, tf \in Timeframes : lb' = fetchLeaderboardData(g, tf)
    /\ UNCHANGED <<tasks, subs, userDocs, members, fetchVars, delVars, extVars, verVars, pageVars,
                   memVars, subVars>>

MemLeaderboard ==
    /\ lb = NoLb
    /\ \E g \in Groups : lb' = MemGetLeaderboard(g)
    /\ UNCHANGED <<tasks, subs, userDocs, members, fetchVars, delVars, extVars, verVars, pageVars,
                   memVars, subVars>>

FirestoreLeaderboard ==
    /\ lb = NoLb
    /\ \E g \in Groups : lb' = FirestoreGetLeaderboard(g)
    /\ UNCHANGED <<tasks, subs, userDocs, members, fetchVars, delVars, extVars, verVars, pageVars,
                   memVars, subVars>>

NextAgg == ClientFetchLeaderboard \/ MemLeaderboard \/ FirestoreLeaderboard

SpecAgg == InitAgg /\ [][NextAgg]_vars

----------------------------------------------------------------------------
(* Specification SpecVerify: any call and any answers of the service, then *)
(* the two revisions of the verifier                                        *)

AggIdle ==
    /\ tasks = [t \in TaskIds |-> NoDoc]
    /\ subs = <<>>
    /\ userDocs = {}
    /\ members = <<>>
    /\ lb = NoLb
    /\ FetchIdle

InitVerify ==
    /\ DelIdle
    /\ ExtIdle
    /\ \E h \in Handles, sl \in Slugs :
          \E d \in ProblemAnswers(h, sl), r \in RecentAnswers :
              vq = [username |-> h, titleSlug |-> sl, data |-> d, recentData |-> r]
    /\ vres = NoRes
    /\ AggIdle
    /\ PageIdle
    /\ MemIdle
    /\ SubIdle

VerifyImproved ==
    /\ vres' = verifyLeetCodeCompletion(vq.username, vq.titleSlug, vq.data, vq.recentData)
    /\ UNCHANGED <<vq, aggVars, delVars, extVars, pageVars, memVars, subVars>>

VerifyRecent ==
    /\ vres' = verifyLeetCodeCompletionRecent(vq.username, vq.titleSlug, vq.data,
                                               vq.recentData)
    /\ UNCHANGED <<vq, aggVars, delVars, extVars, pageVars, memVars, subVars>>

NextVerify == VerifyImproved \/ VerifyRecent

SpecVerify == InitVerify /\ [][NextVerify]_vars

----------------------------------------------------------------------------
(* Claims on the verifier *)

Answered == ~vq.data.threw /\ ~vq.recentData.threw

LifetimeSolved ==
    /\ ~vq.data.threw
    /\ vq.data.question # None
    /\ vq.data.question[1].status = "ac"

RecentAccepted ==
    /\ ~vq.recentData.threw
    /\ \E i \in 1..Len(OrEmpty(vq.recentData.recentSubmissionList)) :
          LET e == OrEmpty(vq.recentData.recentSubmissionList)[i] IN
          e.titleSlug = vq.titleSlug /\ e.statusDisplay = "Accepted"

\* C2: the verifier returns verified = true only when the lifetime status of
\* the problem is "ac" and the recent window holds an Accepted entry for the
\* slug; with exactly one of the two it returns verified = false.
C2_VerifiedOnlyIfBoth ==
    (vres.rev # "none" /\ vres.verified) => (LifetimeSolved /\ RecentAccepted)

\* C7: when the service answers that no problem has the slug, the verifier
\* (part_005) returns verified = false with the problem-not-found reason,
\* whether or not the service knows the handle.
C7_NotFoundReason ==
    (vres.rev = "improved" /\ Answered /\ vq.data.question = None) =>
        /\ ~vres.verified
        /\ vres.error = Some(<<"ProblemNotFound", vq.titleSlug>>)

\* the verifier answered for an unknown slug and a handle the service does
\* not know, while the recent window holds an Accepted entry for the slug
C7_Witness ==
    /\ vres.rev = "improved"
    /\ Answered
    /\ vq.data.question = None
    /\ vq.data.matchedUser = None
    /\ RecentAccepted

ServiceThrew == vq.data.threw \/ vq.recentData.threw

\* C12: when a query to the service rejects, verifyLeetCodeCompletion (either
\* revision) still returns a result, not an exception: verified = false with
\* a non-empty error message; the page derives the status 'error' and shows
\* that message.
C12_ErrorsBecomeResults ==
    (vres # NoRes /\ ServiceThrew) =>
        /\ "verified" \in DOMAIN vres
        /\ ~vres.verified
        /\ vres.error # None
        /\ vres.error[1][1] # ""
        /\ StatusOf(vres) = "error"
        /\ MessageOf(vres) = vres.error[1]

\* the second query rejected with an error that carries no message, and the
\* verifier of lib/graphql.ts returned
C12_Witness ==
    /\ vres # NoRes
    /\ vres.rev = "recent"
    /\ ~vq.data.threw
    /\ vq.recentData.threw
    /\ vq.recentData.message = ""

\* C21: whenever the verifier (part_005) returns verified = true, the result
\* carries the problem asked for and a non-empty list of submission records,
\* each of them an entry of the recent window for the target slug with
\* outcome 'Accepted'.
C21_VerifiedCarriesEvidence ==
    (vres.rev = "improved" /\ vres.verified) =>
        /\ vres.problem # None
        /\ vres.problem[1].titleSlug = vq.titleSlug
        /\ vres.submissions # <<>>
        /\ \A i \in 1..Len(vres.submissions) :
              /\ vres.submissions[i].titleSlug = vq.titleSlug
              /\ vres.submissions[i].statusDisplay = "Accepted"
              /\ \E j \in 1..Len(OrEmpty(vq.recentData.recentSubmissionList)) :
                    OrEmpty(vq.recentData.recentSubmissionList)[j] = vres.submissions[i]

\* 'alice123' and 'two-sum', lifetime solved, and a recent window with one
\* Accepted entry for the slug next to an Accepted entry for another problem
C21_Witness ==
    /\ vres.rev = "improved"
    /\ vres.verified
    /\ vq.username = "alice123"
    /\ vq.titleSlug = "two-sum"
    /\ Len(OrEmpty(vq.recentData.recentSubmissionList)) = 2
    /\ Len(vres.submissions) = 1
    /\ \E i \in 1..2 :
          OrEmpty(vq.recentData.recentSubmissionList)[i] =
              [titleSlug |-> "lru-cache", statusDisplay |-> "Accepted"]

----------------------------------------------------------------------------
(* Specification SpecPage: a loaded TaskDetails page and its two buttons *)

InitPage ==
    /\ DelIdle
    /\ ExtIdle
    /\ pg \in PageRecords
    /\ vStatus = "idle"
    /\ vMessage = MsgNone
    /\ form = "blank"
    /\ isSubmitting = FALSE
    /\ subPc = "idle"
    /\ btnVerifying = 0
    /\ hasUserSubmitted \in BOOLEAN
    /\ pageSubs = <<>>
    /\ attempts = 0
    /\ callsIssued = 0
    /\ toast = MsgNone
    /\ tasksPc = "idle"
    /\ tasksSubmitted = hasUserSubmitted
    /\ AggIdle
    /\ VerIdle
    /\ MemIdle
    /\ SubIdle

NextPage ==
    \/ VerifyClick \/ VerifyResolve \/ SubmitClick \/ SubmitVerifyResolve
    \/ SubmitFails \/ SubmitAddDoc \/ SubmitAddMessage \/ SubmitRefresh

SpecPage == InitPage /\ [][NextPage]_vars

\* Specification SpecPages: the task page together with the Tasks page, both
\* of which write the user's submission of the task
NextPages ==
    \/ VerifyClick \/ VerifyResolve \/ SubmitClick \/ SubmitVerifyResolve
    \/ SubmitFails \/ SubmitAddDoc \/ SubmitAddMessage \/ SubmitRefresh
    \/ TasksSubmitClick \/ TasksAddDoc \/ TasksNotify \/ TasksRefresh \/ TasksFails

SpecPages == InitPage /\ [][NextPages]_vars

----------------------------------------------------------------------------
(* Specification SpecAttempt: verifyLeetCodeSubmission called for a        *)
(* LeetCode task with any profile and any link, one call after another     *)

InitAttempt ==
    /\ InitPage
    /\ pg.type = "leetcode"
    /\ ~hasUserSubmitted

NextAttempt == CallVerify \/ CallResolve

SpecAttempt == InitAttempt /\ [][NextAttempt]_vars

\* the reason for which the last attempt failed
Returned == attempts > 0 /\ btnVerifying = 0
HandleMissing == Returned /\ pg.handle = ""
LinkMalformed == Returned /\ pg.handle # "" /\ Falsy(problemSlugOf(pg.link))
Answered19 ==
    /\ Returned /\ pg.handle # "" /\ ~Falsy(problemSlugOf(pg.link))
    /\ ~vq.data.threw /\ ~vq.recentData.threw
    /\ ~vres.verified
ProblemNotFound == Answered19 /\ vq.data.question = None
NotVerified == Answered19 /\ vq.data.question # None

\* what the caller sees of each reason
SeesHandleMissing == toast = MsgNoHandle /\ vStatus = "idle"
SeesLinkMalformed == toast = MsgNone /\ vStatus = "error" /\ vMessage = MsgInvalidLink
SeesProblemNotFound ==
    /\ toast = MsgNone
    /\ vStatus = "error"
    /\ \/ vMessage = MsgGeneric
       \/ Len(vMessage) = 2 /\ vMessage[1] = "ProblemNotFound"
SeesNotVerified ==
    /\ toast = MsgNone
    /\ vStatus = "error"
    /\ Len(vMessage) = 2 /\ vMessage[1] = "Could not verify completion of"

\* C19: each of the four reasons of a failed verification (problem not
\* found, not verified, handle missing, link malformed) shows at the caller
\* as an outcome of its own - a notification, a status and a message that no
\* other of the four reasons produces - and as a returned result, never as
\* an exception.
C19_ReasonsDistinguishable ==
    /\ HandleMissing => SeesHandleMissing
    /\ LinkMalformed => SeesLinkMalformed
    /\ ProblemNotFound => SeesProblemNotFound
    /\ NotVerified => SeesNotVerified
    /\ ~(SeesHandleMissing /\ SeesLinkMalformed)
    /\ ~(SeesHandleMissing /\ SeesProblemNotFound)
    /\ ~(SeesHandleMissing /\ SeesNotVerified)
    /\ ~(SeesLinkMalformed /\ SeesProblemNotFound)
    /\ ~(SeesLinkMalformed /\ SeesNotVerified)
    /\ ~(SeesProblemNotFound /\ SeesNotVerified)
    /\ "verified" \in DOMAIN vres

\* an attempt on an existing problem that was not verified, after an
\* earlier attempt had been answered
C19_Witness ==
    /\ NotVerified
    /\ attempts = 2
    /\ vres.rev = "improved"
    /\ vq.data.question[1].status = "ac"

\* C20: with a profile without handle an attempt shows the "set your
\* LeetCode username" notification, and no call is ever issued nor is the
\* status ever 'checking'.
C20_NoHandleNoCall ==
    [][pg.handle = "" =>
          /\ attempts' > attempts => toast' = MsgNoHandle
          /\ callsIssued' = 0
          /\ vStatus' # "checking"
          /\ vq' = NoCall]_vars

\* two attempts were made with a profile without handle
C20_Witness ==
    /\ pg.handle = ""
    /\ attempts = 2
    /\ toast = MsgNoHandle

----------------------------------------------------------------------------
(* Claims on the page *)

InFlight == btnVerifying + (IF subPc = "verifying" THEN 1 ELSE 0)
BadLink == Falsy(problemSlugOf(pg.link))

\* C6: with a resource link that has no "/problems/" segment, or an empty
\* slug after it, every verification attempt ends in the error state with the
\* invalid-link message, and no call to the verifier is issued.
C6_BadLinkFailsFast ==
    (BadLink /\ attempts > 0) =>
        /\ vStatus = "error"
        /\ vMessage = MsgInvalidLink
        /\ callsIssued = 0
        /\ InFlight = 0

\* two attempts were made on a page whose link holds the marker but no slug
C6_Witness ==
    /\ FirstMarker(pg.link) # 0
    /\ BadLink
    /\ attempts = 2

\* C10: at most one call to the verifier is in flight on a task page.
C10_OneCallInFlight == InFlight <= 1

\* C10, first half: while the status is "checking" no verification attempt starts.
C10_NoStartWhileChecking == [][vStatus = "checking" => attempts' = attempts]_vars

FsmTransitions ==
    {<<"idle", "checking">>, <<"checking", "success">>, <<"checking", "error">>,
     <<"success", "checking">>, <<"error", "checking">>}

AttemptStep == attempts' = attempts + 1
ResolveStep ==
    \/ btnVerifying' = btnVerifying - 1
    \/ subPc = "verifying" /\ subPc' = "idle"
ResetStep == subPc = "addMsg" /\ subPc' = "refresh"

\* C11 as stated: the status changes only along idle -> checking, checking ->
\* success, checking -> error and success/error -> checking (an attempt that
\* finds the link malformed passes through checking within one step); it is
\* never set back to idle.
C11_OnlyFsmTransitions ==
    [][vStatus' # vStatus =>
          \/ <<vStatus, vStatus'>> \in FsmTransitions
          \/ AttemptStep /\ vStatus # "checking" /\ vStatus' = "error"]_vars

\* C11 amended: the status becomes checking only by an attempt, success or
\* error only by the resolution of a verifier call (error also by an attempt
\* on a malformed link), and idle only by the reset that handleSubmitTask
\* performs once it has recorded the submission.
C11_StatusChangesByCause ==
    [][vStatus' # vStatus =>
          /\ vStatus' = "checking" => AttemptStep
          /\ vStatus' = "success" => ResolveStep
          /\ vStatus' = "error" => (ResolveStep \/ (AttemptStep /\ BadLink))
          /\ vStatus' = "idle" => (ResetStep /\ pageSubs # <<>>)]_vars

\* a verified submission was recorded and the verification is idle again
C11_Witness ==
    /\ vStatus = "idle"
    /\ attempts > 0
    /\ pageSubs # <<>>
    /\ pageSubs[Len(pageSubs)].verification = "success"

\* C13: every submission recorded for a task of type 'leetcode' was recorded
\* while the user's verification of the task was in state 'success'.
C13_RecordedOnlyVerified ==
    pg.type = "leetcode" =>
        \A i \in 1..Len(pageSubs) : pageSubs[i].verification = "success"

----------------------------------------------------------------------------
(* Specification SpecMembers: group g1 with its admin; two dialogs and two  *)
(* requests add members                                                     *)

InitMembers ==
    /\ DelIdle
    /\ ExtIdle
    /\ gm = {[key |-> NumKey(1), groupId |-> "g1", userId |-> Admin, isAdmin |-> TRUE]}
    /\ gmCounter = Some(1)
    /\ autoIds = 0
    /\ sess = [s \in Sessions |-> SessIdle]
    /\ req = [r \in Reqs |-> ReqIdle]
    /\ ops = 0
    /\ AggIdle
    /\ VerIdle
    /\ PageIdle
    /\ SubIdle

NextMembers ==
    \/ \E s \in Sessions :
          \/ ClientStart(s) \/ ClientFindUser(s) \/ ClientCheckMember(s)
          \/ ClientAddDoc(s) \/ ClientAddMessage(s) \/ ClientFails(s)
    \/ \E r \in Reqs :
          \/ ReqStart(r) \/ ReqGetGroup(r) \/ ReqIsAdmin(r) \/ ReqCounterGet(r)
          \/ ReqCounterWrite(r) \/ ReqDocSet(r) \/ ReqFails(r)

SpecMembers == InitMembers /\ [][NextMembers]_vars

----------------------------------------------------------------------------
(* Claims on memberships *)

\* C8: at most one membership record exists per (user, group) pair, under any
\* interleaving of add-member operations.
C8_OneMembershipPerPair ==
    \A u \in Users \cup {Admin}, g \in Groups : Cardinality(MembershipsOf(u, g)) <= 1

\* C24: when the verification that Submit started comes back, the handler
\* goes on to create the submission if and only if the verification ended
\* in 'success'.
C24_SubmitIffVerified ==
    [][(subPc = "verifying" /\ subPc' # "verifying") =>
          (vStatus' = "success" <=> subPc' = "addDoc")]_vars

----------------------------------------------------------------------------
(* Specification SpecApi: requests to the three creating routes of the API *)
(* by the admin of g1, by user A and by callers without a session          *)

InitApi ==
    /\ gm = {[key |-> NumKey(1), groupId |-> "g1", userId |-> Admin, isAdmin |-> TRUE]}
    /\ gmCounter = Some(1)
    /\ autoIds = 0
    /\ sess = [s \in Sessions |-> SessIdle]
    /\ req = [r \in Reqs |-> ReqIdle]
    /\ ops = 0
    /\ ExtIdle
    /\ AggIdle
    /\ DelIdle
    /\ VerIdle
    /\ PageIdle
    /\ SubIdle

NextApi ==
    \E r \in Reqs :
        \/ ReqStart(r) \/ ReqGetGroup(r) \/ ReqIsAdmin(r) \/ ReqCounterGet(r)
        \/ ReqCounterWrite(r) \/ ReqDocSet(r) \/ ReqFails(r)
        \/ TaskReqStart(r) \/ TaskReqGetGroup(r) \/ TaskReqIsAdmin(r)
        \/ TaskCounterGet(r) \/ TaskCounterWrite(r) \/ TaskDocSet(r) \/ TaskReqFails(r)
        \/ GroupReqStart(r) \/ GroupCounterGet(r) \/ GroupCounterWrite(r)
        \/ GroupDocSet(r) \/ GroupMemCounterGet(r) \/ GroupMemCounterWrite(r)
        \/ GroupMemDocSet(r) \/ GroupReqFails(r)

SpecApi == InitApi /\ [][NextApi]_vars

apiStore == <<gm, gmCounter, createdGroups, groupCounter, apiTasks, taskCounter>>

\* the request is by a session whose user is an admin of its existing group
Entitled(r) ==
    /\ req[r].caller # Null
    /\ req[r].groupId \in GroupDocs
    /\ isGroupAdmin(req[r].caller, req[r].groupId)

\* the rejections of the two guarded routes: 401 on arrival without a
\* session, 404 where the group is looked up, 403 where the admin is looked
\* up, each leaving the store as it is; no request without a session is taken
Rejections ==
    \A r \in Reqs :
        /\ (req[r].pc = "idle" /\ req'[r].pc # "idle") => req'[r].caller # Null
        /\ (req'[r] # req[r] /\ req'[r].resp \in {401, 403, 404}) =>
              /\ apiStore' = apiStore
              /\ req'[r].pc = "idle"
              /\ req'[r].resp = 401 => req[r].pc = "idle"
              /\ req'[r].resp = 404 =>
                    req[r].pc \in {"getGroup", "tGetGroup"} /\ req[r].groupId \notin GroupDocs
              /\ req'[r].resp = 403 =>
                    /\ req[r].pc \in {"isAdmin", "tIsAdmin"}
                    /\ ~isGroupAdmin(req[r].caller, req[r].groupId)
        /\ (req[r].pc \in {"getGroup", "tGetGroup"} /\ req'[r].pc \in {"isAdmin", "tIsAdmin"})
              => req[r].groupId \in GroupDocs
        /\ (req[r].pc \in {"isAdmin", "tIsAdmin"}
              /\ req'[r].pc \in {"counterGet", "tCounterGet"}) => Entitled(r)

\* the only way to the write of a guarded route is through its checks
ThroughChecks ==
    \A r \in Reqs :
        req'[r].pc # req[r].pc =>
            /\ req'[r].pc = "docSet" => req[r].pc = "counterWrite"
            /\ req'[r].pc = "counterWrite" => req[r].pc = "counterGet"
            /\ req'[r].pc = "counterGet" => req[r].pc = "isAdmin"
            /\ req'[r].pc = "isAdmin" => req[r].pc = "getGroup"
            /\ req'[r].pc = "tDocSet" => req[r].pc = "tCounterWrite"
            /\ req'[r].pc = "tCounterWrite" => req[r].pc = "tCounterGet"
            /\ req'[r].pc = "tCounterGet" => req[r].pc = "tIsAdmin"
            /\ req'[r].pc = "tIsAdmin" => req[r].pc = "tGetGroup"

\* C23 as stated: every step that creates a task or a membership is the
\* write of a request that went through the checks of a guarded route, and
\* the rejections are as described.
C23_OnlyAdminsCreate ==
    [][/\ Rejections
       /\ ThroughChecks
       /\ apiTasks' # apiTasks => \E r \in Reqs : req[r].pc = "tDocSet" /\ req'[r].resp = 201
       /\ gm' # gm => \E r \in Reqs : req[r].pc = "docSet" /\ req'[r].resp = 201]_vars

\* C23 amended: a task is created only by the write of a request that went
\* through the checks of POST /api/groups/:id/tasks, and a membership only
\* by the write of a request that went through the checks of POST
\* /api/groups/:id/members or by POST /api/groups, which makes its
\* authenticated caller the admin of the group it has just created; the
\* rejections are as described.
C23_OnlyAdminsOrCreators ==
    [][/\ Rejections
       /\ ThroughChecks
       /\ apiTasks' # apiTasks => \E r \in Reqs : req[r].pc = "tDocSet" /\ req'[r].resp = 201
       /\ gm' # gm =>
             \E r \in Reqs :
                 /\ req'[r].resp = 201
                 /\ \/ req[r].pc = "docSet"
                    \/ /\ req[r].pc = "gmDocSet"
                       /\ req[r].caller # Null
                       /\ req[r].groupId \in createdGroups
                       /\ \E d \in gm' : /\ d.userId = req[r].caller
                                         /\ d.groupId = req[r].groupId
                                         /\ d.isAdmin]_vars

\* user A created group g2 and became its admin, and A's request to create
\* a task in g1 was answered 403
C23_Witness ==
    /\ \E d \in gm : d.userId = "A" /\ d.groupId = "g2" /\ d.isAdmin
    /\ \E r \in Reqs : req[r].resp = 403 /\ req[r].pc = "idle"
    /\ apiTasks = {}

----------------------------------------------------------------------------
(* Specification SpecSubmit: two submitters, each on one of the three paths *)

InitSubmit ==
    /\ DelIdle
    /\ ExtIdle
    /\ tasks = [t \in TaskIds |-> IF t = "T1" THEN "g1" ELSE NoDoc]
    /\ subs = <<>>
    /\ userDocs = {}
    /\ members = <<>>
    /\ lb = NoLb
    /\ FetchIdle
    /\ tsDocs = {}
    /\ tsCounter \in {None, Some(1)}
    /\ tsAuto = 0
    /\ memSubs = {}
    /\ memSubCounter = 1
    /\ sub = [p \in Submitters |-> SubmitterIdle]
    /\ submits = 0
    /\ VerIdle
    /\ PageIdle
    /\ MemIdle

NextSubmit ==
    \E p \in Submitters :
        \/ StartSubmit(p) \/ ClientAddSubmission(p) \/ MemSubmitTask(p)
        \/ RouteGetTask(p) \/ SubmitCounterGet(p) \/ SubmitCounterWrite(p)
        \/ SubmitDocSet(p) \/ RouteFails(p)

SpecSubmit == InitSubmit /\ [][NextSubmit]_vars

----------------------------------------------------------------------------
(* Claims on submissions *)

StoreOf(path) == IF path = "mem" THEN memSubs ELSE tsDocs
Created(p) == sub[p].resp = 201
PersistedBy(p) == {d \in StoreOf(sub[p].path) : d.by = p}

\* C9: two submissions that were both created are both persisted, under
\* distinct identifiers.
C9_BothPersisted ==
    \A p, q \in Submitters :
        (p # q /\ Created(p) /\ Created(q)) =>
            /\ PersistedBy(p) # {}
            /\ PersistedBy(q) # {}
            /\ (sub[p].path = sub[q].path => sub[p].key # sub[q].key)

----------------------------------------------------------------------------
(* Specification SpecScore: the aggregations over completed submissions on *)
(* one task, with every kind of score (unset, 0, positive) and with dates  *)
(* on both sides of the weekly window                                      *)

AllScores == {NoScore, <<0>>, <<5>>}
WindowDays == {NowDay - 8, NowDay - 7, NowDay - 6}

ScoreRecords ==
    [taskId : {"T1"}, userId : Users, status : {"completed"}, score : AllScores,
     at : WindowDays]

InitScore ==
    /\ DelIdle
    /\ ExtIdle
    /\ tasks = [t \in TaskIds |-> IF t = "T1" THEN "g1" ELSE "g2"]
    /\ userDocs = Users
    /\ members \in {<<>>, <<[userId |-> "A", groupId |-> "g1"],
                            [userId |-> "B", groupId |-> "g1"]>>}
    /\ subs \in BoundedSeq(ScoreRecords, MaxSubs)
    /\ lb = NoLb
    /\ FetchIdle
    /\ VerIdle
    /\ PageIdle
    /\ MemIdle
    /\ SubIdle

SpecScore == InitScore /\ [][NextAgg]_vars

----------------------------------------------------------------------------
(* Specification SpecFetch: two calls of fetchLeaderboardData on one page,  *)
(* each of whose fetches may fail                                           *)

InitFetch ==
    /\ DelIdle
    /\ ExtIdle
    /\ tasks \in {t \in [TaskIds -> Groups \cup {NoDoc}] : t["T1"] = "g1"}
    /\ userDocs = Users
    /\ members = <<>>
    /\ subs \in BoundedSeq(SubRecords, 1)
    /\ lb = NoLb
    /\ FetchIdle
    /\ VerIdle
    /\ PageIdle
    /\ MemIdle
    /\ SubIdle

NextFetch ==
    \E c \in FetchCalls :
        \/ FetchStart(c) \/ FetchTasksDone(c) \/ FetchSubsDone(c)
        \/ FetchUsersDone(c) \/ FetchFails(c)

SpecFetch == InitFetch /\ [][NextFetch]_vars

\* C14: the step at which a fetch of a call fails leaves the stored ranking as
\* it was, shows one error notification, sets the loading flag to false and
\* ends the call; the call has stored nothing and asks for nothing again.
C14_FailedFetchAborts ==
    [][\A c \in FetchCalls :
          /\ (fcalls'[c].failed /\ ~fcalls[c].failed) =>
                /\ lb' = lb
                /\ errToasts' = errToasts + 1
                /\ ~loadingLeaderboard'
                /\ fcalls'[c].pc = "done"
                /\ ~fcalls'[c].stored
                /\ fcalls'[c].fetched = fcalls[c].fetched
          /\ fcalls[c].failed => fcalls'[c] = fcalls[c]]_vars

\* a call failed on its third fetch after another call had stored a ranking
C14_Witness ==
    \E c \in FetchCalls :
        /\ fcalls[c].failed
        /\ Len(fcalls[c].fetched) = 3
        /\ lb # NoLb
        /\ lb.out # <<>>

----------------------------------------------------------------------------
(* Specification SpecDelete: one run of handleDeleteGroup over a store with *)
(* documents of two groups, any awaited call of which may fail, next to    *)
(* another client that writes to the group                                 *)

InitDelete ==
    /\ ExtIdle
    /\ dGroup = TRUE
    /\ dColl \in [Range(Colls) -> CollStates]
    /\ del = DelStart
    /\ wrote = FALSE
    /\ AggIdle
    /\ VerIdle
    /\ PageIdle
    /\ MemIdle
    /\ SubIdle

NextDelete ==
    \/ DeleteClick \/ DeleteGroupDoc \/ DeleteQuery \/ DeleteAll \/ DeleteFails
    \/ ConcurrentWrite

SpecDelete == InitDelete /\ [][NextDelete]_vars

GroupDocsLeft(c) == {id \in DOMAIN dColl[c] : dColl[c][id] = Deleted}

\* C17: once handleDeleteGroup has completed without error, and no other
\* client wrote meanwhile, the group document is gone and no membership,
\* message or task carries the group's id.
C17_DeleteRemovesAll ==
    (del.phase = "done" /\ ~wrote) =>
        /\ ~dGroup
        /\ del.errors = 0
        /\ \A c \in Range(Colls) : GroupDocsLeft(c) = {}

\* a completed deletion over a store where every collection held documents
\* of the group and of the other group; the other group's documents remain
C17_Witness ==
    /\ del.phase = "done"
    /\ ~wrote
    /\ \A c \in Range(Colls) : dColl[c][2] = "g2" /\ dColl[c][1] = NoDoc

\* C18: the step at which an awaited call of handleDeleteGroup fails puts
\* nothing back (no document reappears, and the group document is gone once
\* the first step has passed), leaves the collections of the later steps as
\* they are, and surfaces one error; after it the handler does nothing more
\* and has shown no success notification.
C18_NoCompensation ==
    [][/\ (del'.phase = "failed" /\ del.phase # "failed") =>
            /\ dGroup' = dGroup
            /\ del.step >= 1 => ~dGroup'
            /\ \A c \in Range(Colls) : GroupDocsLeft(c)' \subseteq GroupDocsLeft(c)
            /\ \A k \in 1..Len(Colls) : k > del.step => dColl'[Colls[k]] = dColl[Colls[k]]
            /\ del'.errors = 1
            /\ del'.ok = 0
       /\ del.phase = "failed" =>
            /\ del' = del
            /\ dGroup' = dGroup
            /\ \A c \in Range(Colls) : GroupDocsLeft(c) \subseteq GroupDocsLeft(c)']_vars

\* the deletion failed while deleting the messages: the group document and
\* the memberships are gone, a message and the tasks of the group remain
C18_Witness ==
    /\ del.phase = "failed"
    /\ del.step = 2
    /\ ~wrote
    /\ ~dGroup
    /\ GroupDocsLeft("group_members") = {}
    /\ GroupDocsLeft("messages") = {1}
    /\ GroupDocsLeft("tasks") = {1, 2}

----------------------------------------------------------------------------
(* Claims on the aggregation *)

Computed == lb.impl # "none"
DefaultOf(impl) == IF impl = "client" THEN DefaultScoreClient ELSE DefaultScoreServer

InTimeframe(tf, day) ==
    tf = "all" \/ IsoGeq(toISOString(day), toISOString(StartDate(tf)))

RECURSIVE CompletedTotal(_, _, _, _)
CompletedTotal(docs, g, tf, default) ==
    IF docs = <<>> THEN 0
    ELSE LET s == Head(docs) IN
         (IF s.status = "completed" /\ tasks[s.taskId] = g /\ InTimeframe(tf, s.at)
          THEN (IF s.score = NoScore THEN default ELSE s.score[1])
          ELSE 0)
         + CompletedTotal(Tail(docs), g, tf, default)

OutUsers == {lb.out[i].user : i \in 1..Len(lb.out)}

\* C1: the scores of the returned entries sum to the sum of score-or-default
\* over the completed submissions on the group's tasks within the timeframe;
\* pending and failed submissions contribute nothing.
C1_SumOverCompleted ==
    Computed =>
        SumScores(lb.out) = CompletedTotal(subs, lb.groupId, lb.tf, DefaultOf(lb.impl))

\* C3 as stated: for a group without tasks every aggregation returns an
\* empty list and does not query the submissions.
C3_ZeroTasksEmptyList ==
    (Computed /\ taskIdsOf(lb.groupId) = {}) =>
        (lb.out = <<>> /\ ~lb.queriedSubs)

\* C3 amended: for a group without tasks neither the client aggregation nor
\* FirestoreStorage.getLeaderboard queries the submissions; the client returns
\* the empty list and FirestoreStorage returns the group's members (those
\* with a user document), each with score 0.
C3_ZeroTasksNoQuery ==
    (Computed /\ taskIdsOf(lb.groupId) = {}) =>
        /\ lb.impl = "client" => (lb.out = <<>> /\ ~lb.queriedSubs)
        /\ lb.impl = "firestore" =>
              /\ ~lb.queriedSubs
              /\ lb.out = [i \in 1..Len(FirestoreGetGroupMembers(lb.groupId)) |->
                              Entry(FirestoreGetGroupMembers(lb.groupId)[i].user, 0)]

\* the client computed the ranking of a group without tasks while the store
\* holds submissions
C3_Witness ==
    /\ lb.impl = "client"
    /\ taskIdsOf(lb.groupId) = {}
    /\ subs # <<>>

\* C4: the returned list is sorted non-increasing by score.
C4_SortedByScore ==
    Computed =>
        \A i \in 1..(Len(lb.out) - 1) : lb.out[i].score >= lb.out[i + 1].score

\* the client ranked two users, and the one whose submission comes first in
\* the snapshot ended up second
C4_Witness ==
    /\ lb.impl = "client"
    /\ Len(lb.out) = 2
    /\ lb.out[1].score > lb.out[2].score
    /\ subs # <<>>
    /\ subs[1].userId = lb.out[2].user

\* the submissions of user u that an aggregation of group g counts
CountedOf(u, g, tf) ==
    SelectSeq(subs, LAMBDA s : /\ s.userId = u
                               /\ s.status = "completed"
                               /\ tasks[s.taskId] = g
                               /\ InTimeframe(tf, s.at))

\* a set score counts as it is, an unset one as the default
RECURSIVE OwnTotal(_, _)
OwnTotal(docs, default) ==
    IF docs = <<>> THEN 0
    ELSE (IF Head(docs).score = NoScore THEN default ELSE Head(docs).score[1])
         + OwnTotal(Tail(docs), default)

\* C15: the total of every returned user is the sum, over the user's counted
\* submissions, of the submission's own score when one is set (0 included)
\* and of the default weight when none is set.
C15_SetScoreCounts ==
    Computed =>
        \A i \in 1..Len(lb.out) :
            lb.out[i].score =
                OwnTotal(CountedOf(lb.out[i].user, lb.groupId, lb.tf), DefaultOf(lb.impl))

\* the submissions of user u on the tasks of group g dated from day d on
DatedFrom(u, g, d) ==
    SelectSeq(subs, LAMBDA s : s.userId = u /\ tasks[s.taskId] = g /\ s.at >= d)

\* C16: over submissions whose score is not 0, the client's weekly ranking
\* holds exactly the users with a submission dated now minus 7 days or later,
\* each with the total of those submissions, and the client's all-time
\* ranking leaves out no submission for its date.
C16_WeeklyWindow ==
    (/\ lb.impl = "client"
     /\ lb.tf \in {"weekly", "all"}
     /\ \A i \in 1..Len(subs) : subs[i].score # <<0>>) =>
        LET from == IF lb.tf = "weekly" THEN NowDay - 7 ELSE EpochDay IN
        /\ OutUsers = {u \in userDocs : DatedFrom(u, lb.groupId, from) # <<>>}
        /\ \A i \in 1..Len(lb.out) :
              lb.out[i].score =
                  OwnTotal(DatedFrom(lb.out[i].user, lb.groupId, from), DefaultScoreClient)

\* a weekly ranking over a store with a submission dated 8 days ago and one
\* of the same user dated 6 days ago: only the later one is counted
C16_Witness ==
    /\ lb.impl = "client"
    /\ lb.tf = "weekly"
    /\ Len(subs) = 2
    /\ subs[1].userId = subs[2].userId
    /\ subs[1].at = NowDay - 8 /\ subs[1].score = <<5>>
    /\ subs[2].at = NowDay - 6 /\ subs[2].score = NoScore
    /\ Len(lb.out) = 1
    /\ lb.out[1].score = DefaultScoreClient

IsMemberOf(u, g) == \E i \in 1..Len(members) : members[i] = [userId |-> u, groupId |-> g]

\* C22: the ranking of a server store holds exactly one entry for every user
\* who is a member of the group (with score 0 when the user has no completed
\* submission on the group's tasks), none for a user who is not a member,
\* and the score of an entry is the total of that user's completed
\* submissions on the group's tasks.
C22_OneEntryPerMember ==
    (lb.impl \in {"mem", "firestore"}) =>
        /\ \A u \in userDocs :
              Cardinality({i \in 1..Len(lb.out) : lb.out[i].user = u}) =
                  IF IsMemberOf(u, lb.groupId) THEN 1 ELSE 0
        /\ \A i \in 1..Len(lb.out) :
              lb.out[i].user \in userDocs =>
                  lb.out[i].score =
                      OwnTotal(CountedOf(lb.out[i].user, lb.groupId, "all"),
                               DefaultScoreServer)

\* C5: a user whose submissions on the group's tasks are all non-completed
\* does not appear in the client's ranking.
C5_NonCompletedOmitted ==
    (lb.impl = "client") =>
        \A u \in Users :
            (\A i \in 1..Len(subs) :
                (subs[i].userId = u /\ tasks[subs[i].taskId] = lb.groupId)
                    => subs[i].status # "completed")
            => u \notin OutUsers

----------------------------------------------------------------------------
(* Specification SpecRegister: registration requests of two clients, with   *)
(* any usernames, emails and passwords, interleaved at every await          *)

InitRegister ==
    /\ ExtIdle
    /\ MemIdle
    /\ AggIdle
    /\ DelIdle
    /\ VerIdle
    /\ PageIdle
    /\ SubIdle

NextRegister ==
    \E q \in RegIds :
        \/ RegStart(q) \/ RegByUsername(q) \/ RegByEmail(q) \/ RegCounterGet(q)
        \/ RegCounterWrite(q) \/ RegDocSet(q) \/ RegFails(q)

SpecRegister == InitRegister /\ [][NextRegister]_vars

(* Specification SpecRoutes: the same registrations next to the routes that *)
(* answer with user data                                                    *)

NextRoutes ==
    \/ NextRegister
    \/ Login \/ Me \/ GetMembers \/ GetSubmissions \/ GetLeaderboard \/ PostMessage

SpecRoutes == InitRegister /\ [][NextRoutes]_vars

(* Claims on users *)

\* C25: after any interleaving of registration requests no two stored users
\* share a username, an email or an id.
C25_UniqueUsers ==
    \A u, v \in uStore :
        u # v => /\ u.username # v.username
                 /\ u.email # v.email
                 /\ u.id # v.id

\* the user objects carried by the responses
ResponseUsers ==
    httpOut.body \cup {reg[q].out[1] : q \in {x \in RegIds : reg[x].out # None}}

\* C26: no response of the API carries a password: every user object in a
\* response is the stored user without its password field, so the response
\* is the same whatever the stored passwords are.
C26_NoPasswordInResponse ==
    \A u \in ResponseUsers : "password" \notin DOMAIN u

----------------------------------------------------------------------------
(* Specification SpecSelect: the user selects groups and timeframes on the  *)
(* Leaderboard page while the calls started before are still running        *)

NextSelect ==
    \E c \in FetchCalls :
        \/ handleGroupChange(c) \/ handleTimeframeChange(c)
        \/ FetchTasksDone(c) \/ FetchSubsDone(c) \/ FetchUsersDone(c) \/ FetchFails(c)

SpecSelect == InitFetch /\ [][NextSelect]_vars

Running(c) == fcalls[c].pc \in {"tasks", "subs", "users"}

\* C27: once every call in flight has completed, the displayed ranking is the
\* one of the selected group and timeframe, and the loading flag stays set
\* while the call started last is running.
C27_LatestSelectionDisplayed ==
    /\ (sel.last # Null /\ (\A c \in FetchCalls : ~Running(c))
           /\ ~fcalls[sel.last].failed) =>
          lb.out = fetchLeaderboardData(sel.groupId, sel.tf).out
    /\ (sel.last # Null /\ Running(sel.last)) => loadingLeaderboard

----------------------------------------------------------------------------
(* Specification SpecProfile: the user saves the profile, opens the page of *)
(* a LeetCode task and verifies, in any order and any number of times       *)

NextProfile ==
    \/ handleSaveProfile
    \/ fetchTaskDetails
    \/ (pg.type = "leetcode" /\ CallVerify)
    \/ CallResolve

\* the user's document is absent, or was written by the Profile page, or
\* carries a leetCodeUsername field that another writer put there
InitProfile ==
    /\ ApiIdle
    /\ RegAtRest
    /\ SelIdle
    /\ CasIdle
    /\ ChatIdle
    /\ \E data \in {NoFields, ProfileData("Ann", ""),
                     Merge(ProfileData("Ann", ""), [leetCodeUsername |-> "ghost"])} :
          prof = [doc |-> IF data = NoFields THEN None ELSE Some(data), saved |-> "",
                  fresh |-> FALSE]
    /\ MemIdle
    /\ AggIdle
    /\ DelIdle
    /\ VerIdle
    /\ PageIdle
    /\ SubIdle

SpecProfile == InitProfile /\ [][NextProfile]_vars

\* C28: a verification attempt on a page loaded after the user saved a
\* non-empty LeetCode handle passes the handle precondition and uses the
\* saved handle.
C28_SavedHandleUsed ==
    [][(attempts' = attempts + 1 /\ prof.saved # "" /\ prof.fresh) =>
          (~Falsy(pg.handle) /\ pg.handle = prof.saved)]_vars

----------------------------------------------------------------------------
(* Specification SpecCascade: submissions, deletions of tasks and the       *)
(* deletion of group g1 over a store with tasks of two groups               *)

InitCascade ==
    /\ InitDelete
    /\ dColl["group_members"] = CollOf(1, 0)
    /\ dColl["messages"] = CollOf(0, 0)

NextCascade ==
    \/ SubmitAdded
    \/ DeleteTaskClick \/ DeleteTaskDoc \/ DeleteTaskQuery \/ DeleteTaskSubs
    \/ DeleteTaskMessage \/ DeleteTaskFails
    \/ DeleteClick \/ DeleteGroupDoc \/ DeleteQuery \/ DeleteAll \/ DeleteFails

SpecCascade == InitCascade /\ [][NextCascade]_vars

\* every operation started has completed, and none of them failed
AllCompleted ==
    /\ del.phase \in {"idle", "done"}
    /\ tdel.phase \in {"idle", "done"}
    /\ del.errors = 0
    /\ tdel.errors = 0

\* C29: after any sequence of completed submissions, task deletions and
\* group deletions, every stored submission is of a task that exists.
C29_NoOrphanSubmissions ==
    AllCompleted => \A t \in DocIds : dSubs[t] > 0 => dColl["tasks"][t] # NoDoc

----------------------------------------------------------------------------
(* Specification SpecChat: snapshots of the group's messages arrive while    *)
(* the callbacks of earlier snapshots are resolving users                   *)

NextChat ==
    \/ SnapshotArrives
    \/ \E n \in 1..MaxSnaps : UserResolved(n)

SpecChat == InitRegister /\ [][NextChat]_vars

AllCallbacksDone == cbs # <<>> /\ \A n \in 1..Len(cbs) : cbs[n].done

\* C30: once all callbacks have finished, the displayed list is that of the
\* most recent snapshot in ascending order of sentAt.
C30_LatestSnapshotShown ==
    AllCallbacksDone =>
        /\ shown.from = Len(cbs)
        /\ BareList(shown.list) = SortBySentAt(cbs[Len(cbs)].docs)

====
